---- MODULE Spec2Model ----
(***************************************************************************)
(* Verification model of giftless (Git LFS server).                        *)
(*                                                                         *)
(* SpecAuthn : giftless/auth/github.py, GithubAuthenticator._authenticate  *)
(*             wrapped by cachedmethod_threadsafe (cachetools.cachedmethod *)
(*             around single_call_method), called by parallel request      *)
(*             threads; the token LRU cache and the weak map of users.     *)
(* SpecAuthz : giftless/auth/github.py, GithubIdentity: the authorization  *)
(*             cache of one identity and its read proxy (cachetools        *)
(*             TLRUCache), authorize / is_authorized, and the clock.       *)
(* SpecRestrict : giftless/auth/github.py, CallContext.__post_init__ with  *)
(*             the restrict_to configuration, then the GitHub API calls of *)
(*             GithubAuthenticator.__call__.                               *)
(* SpecChain : giftless/auth/__init__.py, Authentication.get_identity and  *)
(*             the authenticator chain of Authentication._authenticate.    *)
(***************************************************************************)
EXTENDS Integers, Sequences, FiniteSets, TLC

\* ---------------------------------------------------------------- bounds
NThreads == 2          \* parallel request threads
MaxReq == 3            \* requests started in one behaviour
MaxTokenCache == 1     \* largest configured cache.token_max_size

MaxAuthCache == 2      \* largest configured cache.auth_max_size
MaxTime == 180         \* the clock stops here
TimeStep == 30         \* granularity of the clock

MaxRestrictReq == 2    \* requests one SpecRestrict behaviour handles
MaxChainReq == 2       \* requests one SpecChain behaviour handles
MaxGets == 3           \* get_identity calls within one request
MaxAllows == 2         \* allow calls on one DefaultIdentity
MaxRq == 2             \* requests one GithubIdentity serves in SpecRequest
MaxQueries == 3        \* is_authorized calls within one request
MaxTicks == 2          \* clock steps of TickSeconds in SpecJwt
MaxObjects == 2        \* objects listed in one batch request

Threads == 1..NThreads
Tokens == {"tokA", "tokB", "tokC"}
Users == {"u1", "u2"}
\* GET /user answers with the (login, id) the token belongs to: two tokens
\* of one user, and a token of another user
UserOf(k) == IF k = "tokC" THEN "u2" ELSE "u1"

\* (org, repo) pairs requests are made for: cachetools.keys.hashkey(org, repo)
OrgRepos == {<<"org", "r1">>, <<"org", "r2">>}
\* configured TTLs [seconds] the model draws from
WriteTtls == {90}
OtherTtls == {0, 30}
\* Permission
Permission == {"READ", "READ_META", "WRITE"}
\* the 'permission' field of GET /repos/{org}/{repo}/collaborators/{id}/
\* permission
GhPermissions == {"write", "read", "none"}
\* least_ttl of the read proxy: expiration(60.0)
LeastTtl == 60

\* organizations and repositories of the request's view_args
Orgs == {"orgA", "orgB"}
Repos == {"r1", "r2"}
\* request.authorization: no header, a header without token, a token
Authorizations == {"none", "notoken", "token"}
\* what restrict_to holds for an organization: no such key, None, a list
RestrictEntries ==
    {[kind |-> "absent", repos |-> {}], [kind |-> "null", repos |-> {}]}
    \cup {[kind |-> "list", repos |-> rs] : rs \in SUBSET Repos}
\* cfg.restrict_to: None (set = FALSE) or a dict
RestrictConfigs ==
    {[set |-> FALSE,
      map |-> [o \in Orgs |-> [kind |-> "absent", repos |-> {}]]]}
    \cup {[set |-> TRUE, map |-> m] : m \in [Orgs -> RestrictEntries]}

\* authenticators AUTH_PROVIDERS can name
Providers == {"jwt", "github"}
\* AUTH_PROVIDERS: the lists of distinct providers
ProviderLists ==
    {<< >>} \cup {<<a>> : a \in Providers}
    \cup {<<a, b>> : <<a, b>> \in
              {ab \in Providers \X Providers : ab[1] # ab[2]}}
\* values of g.user: attribute missing, None, an Identity object
Unset == [kind |-> "unset", by |-> "", run |-> 0]
NoIdentity == [kind |-> "none", by |-> "", run |-> 0]
\* the object an authenticator creates in a run of the chain
NewIdentity(by, run) == [kind |-> "identity", by |-> by, run |-> run]
\* the configured default identity: one object, or None
DefaultIdentities == {NoIdentity, NewIdentity("default", 0)}

\* object ids a query names ("None": no oid given)
QueryOids == {"None", "o1", "o2"}
\* arguments of DefaultIdentity.allow ("None": the argument is None)
AllowOrgs == {"None", "orgA"}
AllowRepos == {"None", "r1"}
AllowOids == {"None", "o1"}
\* the 'permissions' argument of allow: None, or a set
AllowPermissions ==
    {[none |-> TRUE, perms |-> {}]}
    \cup {[none |-> FALSE, perms |-> ps] :
              ps \in {{"READ", "READ_META"}, Permission}}
AllowCalls ==
    [org : AllowOrgs, repo : AllowRepos, oid : AllowOids,
     permissions : AllowPermissions]
\* arguments of is_authorized
Queries == [org : Orgs, repo : Repos, perm : Permission, oid : QueryOids]
\* is_authorized of a GithubIdentity: the (org, repo) pairs in use
GithubQueries ==
    {[org |-> k[1], repo |-> k[2], perm |-> p, oid |-> "None"] :
        k \in OrgRepos, p \in Permission}

\* -------------------------------------------------------------- variables
VARIABLES
    \* --- SpecAuthn: per-thread frames
    pc,               \* position of each thread in __call__/_authenticate
    token,            \* ctx.token of the thread's request
    sctx,             \* the SingleCallContext ('ctx') the wrapper frame holds
    result,           \* 'result'/'v': value the single-call wrapper yields
    identity,         \* what _authenticate returned to __call__
    raised,           \* the exception the request ended with (0: none)
    \* --- SpecAuthn: shared state
    concurrent_calls, \* single_call_method: key -> SingleCallContext
    calls,            \* heap of SingleCallContext objects
    token_cache,      \* GithubAuthenticator._token_cache (LRU order)
    cached_users,     \* GithubUserIdentity._cached_users (weak values)
    cache_lock,       \* GithubAuthenticator._cache_lock owner (0: free)
    idcore,           \* heap of GithubUserIdentity objects: core_identity
    token_max_size,   \* cfg.cache.token_max_size
    \* --- SpecAuthn: observation (history) variables
    joined,           \* the SingleCallContext the thread's call used
    called,           \* the thread's call performed GET /user
    overlap,          \* threads whose _authenticate overlapped this one
    nreq,             \* requests started so far
    \* --- SpecAuthz: one GithubIdentity
    now,              \* the caches' timer (time.monotonic), in seconds
    auth_cache,       \* self._auth_cache (TLRU, LRU order)
    auth_cache_read_proxy, \* self._auth_cache_read_proxy (TLRU, unbounded)
    auth_max_size,    \* cc.auth_max_size
    auth_write_ttl,   \* cc.auth_write_ttl
    auth_other_ttl,   \* cc.auth_other_ttl
    \* --- SpecAuthz: observation (history) variables
    last_auth,        \* per (org, repo): the authorizer's latest write
    answer,           \* what the latest is_authorized call returned
    \* --- SpecRestrict: one request through GithubAuthenticator.__call__
    restrict_to,      \* cfg.restrict_to
    rpc,              \* position in __call__
    req,              \* the request: organization, repo, authorization
    api_calls,        \* GitHub API calls made for the request
    ctx_error,        \* the exception __call__ ended with
    nrreq,            \* requests handled so far
    \* --- SpecChain: Authentication and flask.g of one request
    AUTH_PROVIDERS,   \* app.config["AUTH_PROVIDERS"]
    PRE_AUTHORIZED_ACTION_PROVIDER, \* app.config[...] ("" when None)
    default_identity, \* self._default_identity
    authenticators,   \* self._authenticators (<<"unset">> while None)
    g_user,           \* flask.g.user
    cpc,              \* position in get_identity/_authenticate
    ci,               \* index of the loop over self._authenticators
    \* --- SpecChain: observation (history) variables
    trace,            \* authenticators called in the current chain run
    chain_result,     \* what the latest _authenticate returned
    runs,             \* chain runs started in the current request
    returns,          \* what get_identity returned in the current request
    ncreq,            \* requests handled so far
    \* --- SpecRequest: the identity of one request and the view's queries
    id_kind,          \* class of the identity: "default" or "github"
    allowed,          \* DefaultIdentity._allowed: (org, repo, oid) -> set
    rq_pc,            \* "idle", or "request" while the view uses the identity
    nrq,              \* requests started so far
    nqueries,         \* is_authorized calls made in the current request
    \* --- SpecRequest: observation (history) variable
    watch,            \* first query of the request, its first/last answer
    \* --- SpecTree: observation (history) variables of one DefaultIdentity
    allows,           \* the allow calls made so far
    last_allow,       \* the latest of them
    nallow,           \* their number
    shown,            \* the answer of the latest is_authorized call
    \* --- SpecJwt: one JWTAuthenticator, the token it minted, one call
    key_id,           \* self.key_id ("None" when not configured)
    jwt_ticks,        \* the clock, in steps of TickSeconds
    minted,           \* the latest token _generate_token_for_action made
    \* --- SpecJwt: observation (history) variables
    granted,          \* the arguments that token was minted for
    jwt_out,          \* the latest __call__: its token, time and outcome
    \* --- SpecBatch: the storage behind the transfer adapter
    blobs,            \* oid -> size of the stored object (Absent: none)
    \* --- SpecBatch: observation (history) variable
    batch,            \* the latest batch request, its results and status
    \* --- SpecStorage: one storage backend behind the transfer adapters
    backend,          \* the class of the storage object
    disk,             \* oid -> the stored object (NoObject: none)
    offered,          \* oids a multipart upload is in progress for
    \* --- SpecStorage: observation (history) variable
    last_op,          \* the latest storage call, what it found and returned
    \* --- SpecTransfer: observation (history) variable
    reply,            \* the latest per-object result of a transfer adapter
    azure_blob,       \* the block lists Azure holds for one blob
    azure_reply,      \* the latest answer of get_multipart_actions
    bearer,           \* the identity built from the scopes of a JWT payload
    action_lifetime,  \* the action_lifetime the transfer adapter is built with
    issued,           \* the actions of the latest batch reply and their tokens
    presented,        \* the outcome of the latest use of an issued action
    fl_pc,            \* where each request is in authorize / is_authorized
    fl_key,           \* the (org, repo) of each request
    fl_ctx,           \* per (org, repo): the request making the call in flight
    fl_shared,        \* the request's authorization flight had several callers
    fl_resolved,      \* the permission set the request's flight resolved
    fl_checked,       \* the request's own is_authorized call and its answer
    app_pc,           \* where each request of the app token is in __call__
    app_org,          \* the organization of each request
    app_own,          \* the org the request's own authenticate() ran for
    app_res,          \* the identity the single-call wrapper returned
    app_ident,        \* the identity _authenticate returned to the request
    app_raised,       \* the exception the request ended with
    app_ctx,          \* the request whose authenticate() is in flight
    app_cache,        \* the token cache's entry for the app token
    app_cache_size,   \* cache.token_max_size
    app_ids,          \* the GithubAppIdentity objects constructed
    app_nreq          \* requests started

varsAuthn == <<pc, token, sctx, result, identity, raised, concurrent_calls,
               calls, token_cache, cached_users, cache_lock, idcore,
               token_max_size, joined, called, overlap, nreq>>

varsAuthz == <<now, auth_cache, auth_cache_read_proxy, auth_max_size,
               auth_write_ttl, auth_other_ttl, last_auth, answer>>

varsRestrict == <<restrict_to, rpc, req, api_calls, ctx_error, nrreq>>

varsChain == <<AUTH_PROVIDERS, PRE_AUTHORIZED_ACTION_PROVIDER,
               default_identity, authenticators, g_user, cpc, ci, trace,
               chain_result, runs, returns, ncreq>>

varsRequest == <<id_kind, allowed, rq_pc, nrq, nqueries, watch>>

varsTree == <<allows, last_allow, nallow, shown>>

varsJwt == <<key_id, jwt_ticks, minted, granted, jwt_out>>

varsBatch == <<blobs, batch>>

varsStorage == <<backend, disk, offered, last_op>>

varsTransfer == <<reply>>

varsAzure == <<azure_blob, azure_reply>>

varsScopes == <<bearer>>

varsPreauth == <<action_lifetime, issued, presented>>

varsFlight == <<fl_pc, fl_key, fl_ctx, fl_shared, fl_resolved, fl_checked>>

varsApp == <<app_pc, app_org, app_own, app_res, app_ident, app_raised, app_ctx, app_cache, app_cache_size, app_ids, app_nreq>>

vars == <<varsAuthn, varsAuthz, varsRestrict, varsChain, varsRequest,
          varsTree, varsJwt, varsBatch, varsStorage, varsTransfer, varsAzure,
          varsScopes, varsPreauth, varsFlight, varsApp>>

\* what the actions of one specification leave alone
frameAuthn == <<varsAuthz, varsRestrict, varsChain, varsRequest, varsTree,
                varsJwt, varsBatch, varsStorage, varsTransfer, varsAzure,
                varsScopes, varsPreauth, varsFlight, varsApp>>
frameAuthz == <<varsAuthn, varsRestrict, varsChain, varsRequest, varsTree,
                varsJwt, varsBatch, varsStorage, varsTransfer, varsAzure,
                varsScopes, varsPreauth, varsFlight, varsApp>>
frameRestrict == <<varsAuthn, varsAuthz, varsChain, varsRequest, varsTree,
                   varsJwt, varsBatch, varsStorage, varsTransfer, varsAzure,
                   varsScopes, varsPreauth, varsFlight, varsApp>>
frameChain == <<varsAuthn, varsAuthz, varsRestrict, varsRequest, varsTree,
                varsJwt, varsBatch, varsStorage, varsTransfer, varsAzure,
                varsScopes, varsPreauth, varsFlight, varsApp>>
frameRequest == <<varsAuthn, varsRestrict, varsChain, varsTree, varsJwt,
                  varsBatch, varsStorage, varsTransfer, varsAzure, varsScopes,
                  varsPreauth, varsFlight, varsApp>>
frameTree == <<varsAuthn, varsAuthz, varsRestrict, varsChain, varsJwt,
               varsBatch, varsStorage, varsTransfer, varsAzure, varsScopes,
               varsPreauth, varsFlight, varsApp>>
frameJwt == <<varsAuthn, varsAuthz, varsRestrict, varsChain, varsRequest,
              varsTree, varsBatch, varsStorage, varsTransfer, varsAzure,
              varsScopes, varsPreauth, varsFlight, varsApp>>
frameBatch == <<varsAuthn, varsAuthz, varsRestrict, varsChain, varsRequest,
                varsTree, varsJwt, varsStorage, varsTransfer, varsAzure,
                varsScopes, varsPreauth, varsFlight, varsApp>>
frameStorage == <<varsAuthn, varsAuthz, varsRestrict, varsChain, varsRequest,
                  varsTree, varsJwt, varsBatch, varsTransfer, varsAzure,
                  varsScopes, varsPreauth, varsFlight, varsApp>>
frameTransfer == <<varsAuthn, varsAuthz, varsRestrict, varsChain, varsRequest,
                   varsTree, varsJwt, varsBatch, varsAzure, varsScopes,
                   varsPreauth, varsFlight, varsApp>>
frameAzure == <<varsAuthn, varsAuthz, varsRestrict, varsChain, varsRequest,
                varsTree, varsJwt, varsBatch, varsStorage, varsTransfer,
                varsScopes, varsPreauth, varsFlight, varsApp>>
frameScopes == <<varsAuthn, varsAuthz, varsRestrict, varsChain, varsRequest,
                 varsTree, varsJwt, varsBatch, varsStorage, varsTransfer,
                 varsAzure, varsPreauth, varsFlight, varsApp>>
framePreauth == <<varsAuthn, varsAuthz, varsRestrict, varsChain, varsRequest,
                  varsTree, varsBatch, varsStorage, varsTransfer, varsAzure,
                  varsScopes, varsFlight, varsApp>>
frameFlight == <<varsAuthn, varsRestrict, varsChain, varsRequest, varsTree,
                 varsJwt, varsBatch, varsStorage, varsTransfer, varsAzure,
                 varsScopes, varsPreauth, varsApp>>
frameApp == <<varsAuthn, varsAuthz, varsRestrict, varsChain, varsRequest,
              varsTree, varsJwt, varsBatch, varsStorage, varsTransfer,
              varsAzure, varsScopes, varsPreauth, varsFlight>>

\* ------------------------------------------------------------- SpecAuthn
\* SingleCallContext(): rlock (owner, count), start_call, result, error.
\* 'creator', 'key' and 'returned' are observations: who created the context,
\* for which key, and what the underlying method returned.
SingleCallContext(t, k) ==
    [owner |-> 0, count |-> 0, start_call |-> TRUE, result |-> 0,
     error |-> FALSE, creator |-> t, key |-> k, returned |-> 0]

\* positions at which the thread's frame is inside the single-call wrapper
InWrapper == {"sc_rlock", "sc_check", "method", "m_users", "fin_acq", "fin",
              "sc_exit", "sc_else"}
\* positions at which the thread executes the underlying method
InMethod == {"method", "m_users"}
\* positions inside _authenticate (cachedmethod wrapper and below)
InAuthenticate == InWrapper \cup
    {"cm_get_acq", "cm_get", "sc_acq", "sc_in", "cm_set_acq", "cm_set"}

\* strong references to an identity object: token cache values, frame
\* locals, and results held by contexts that a frame still refers to
Referenced(i, tc, res, idn, sc, cl) ==
    \/ \E j \in 1..Len(tc) : tc[j].v = i
    \/ \E t \in Threads : res[t] = i \/ idn[t] = i
    \/ \E t \in Threads : sc[t] # 0 /\ cl[sc[t]].result = i

\* variant of the weak map that holds its values strongly (a plain dict)
Sweep_strong_values(cu, tc, res, idn, sc, cl) == cu

\* weakref.WeakValueDictionary: an entry disappears with the last strong
\* reference to its value
Sweep(cu, tc, res, idn, sc, cl) ==
    [u \in Users |->
        IF cu[u] # 0 /\ Referenced(cu[u], tc, res, idn, sc, cl)
        THEN cu[u] ELSE 0]

InCache(tc, k) == \E j \in 1..Len(tc) : tc[j].k = k
CacheIndex(tc, k) == CHOOSE j \in 1..Len(tc) : tc[j].k = k
Remove(s, j) == SubSeq(s, 1, j - 1) \o SubSeq(s, j + 1, Len(s))
\* LRUCache.__getitem__: the entry becomes the most recently used
Touch(tc, k) ==
    LET j == CacheIndex(tc, k) IN Append(Remove(tc, j), tc[j])
\* LRUCache.__setitem__ of a new key with room for it: evict the least
\* recently used entries until the new one fits
Insert(tc, k, v, maxsize) ==
    LET kept == IF Len(tc) + 1 > maxsize
                THEN SubSeq(tc, Len(tc) - maxsize + 2, Len(tc))
                ELSE tc
    IN Append(kept, [k |-> k, v |-> v])

\* the state of GithubAuthenticator.__init__, no request in progress
StartAuthn(tms) ==
    /\ pc = [t \in Threads |-> "idle"]
    /\ token = [t \in Threads |-> "none"]
    /\ sctx = [t \in Threads |-> 0]
    /\ result = [t \in Threads |-> 0]
    /\ identity = [t \in Threads |-> 0]
    /\ raised = [t \in Threads |-> 0]
    /\ concurrent_calls = [k \in Tokens |-> 0]
    /\ calls = << >>
    /\ token_cache = << >>
    /\ cached_users = [u \in Users |-> 0]
    /\ cache_lock = 0
    /\ idcore = << >>
    /\ token_max_size = tms
    /\ joined = [t \in Threads |-> 0]
    /\ called = [t \in Threads |-> FALSE]
    /\ overlap = [t \in Threads |-> {}]
    /\ nreq = 0

\* the state of GithubIdentity.__init__: both caches empty
StartAuthz(ms, wt, ot) ==
    /\ now = 0
    /\ auth_cache = << >>
    /\ auth_cache_read_proxy = << >>
    /\ auth_max_size = ms
    /\ auth_write_ttl = wt
    /\ auth_other_ttl = ot
    /\ last_auth = [k \in OrgRepos |->
                      [time |-> 0, perms |-> {}, read |-> "none"]]
    /\ answer = "none"

\* one GithubAuthenticator with its Config, no request in progress
StartRestrict(cfg) ==
    /\ restrict_to = cfg
    /\ rpc = "idle"
    /\ req = [org |-> "orgA", repo |-> "r1", auth |-> "none"]
    /\ api_calls = 0
    /\ ctx_error = "none"
    /\ nrreq = 0

\* the state of Authentication.__init__, and a request that has not
\* asked for the identity
StartChain(providers, preauth, default) ==
    /\ AUTH_PROVIDERS = providers
    /\ PRE_AUTHORIZED_ACTION_PROVIDER = preauth
    /\ default_identity = default
    /\ authenticators = <<"unset">>
    /\ g_user = Unset
    /\ cpc = "idle"
    /\ ci = 0
    /\ trace = << >>
    /\ chain_result = Unset
    /\ runs = 0
    /\ returns = << >>
    /\ ncreq = 0

\* no query of the current request has been made
NoWatch ==
    [q |-> [org |-> "", repo |-> "", perm |-> "", oid |-> ""],
     first |-> "none", last |-> "none", n |-> 0, perms |-> {}]

\* an identity class is configured, no request in progress
StartRequest(kind) ==
    /\ id_kind = kind
    /\ allowed = << >>
    /\ rq_pc = "idle"
    /\ nrq = 0
    /\ nqueries = 0
    /\ watch = NoWatch

\* no is_authorized call has been made
NoQuery == [ans |-> FALSE, asked |-> FALSE]

\* no allow call has been made
NoAllow ==
    [org |-> "", repo |-> "", oid |-> "",
     permissions |-> [none |-> TRUE, perms |-> {}]]

\* a DefaultIdentity just constructed: nothing allowed, nothing asked
StartTree ==
    /\ allows = {}
    /\ last_allow = NoAllow
    /\ nallow = 0
    /\ shown = NoQuery

\* a request without Authorization header and without jwt parameter
NoToken ==
    [kind |-> "none", kid |-> "None", key |-> "", exp |-> 0,
     scopes |-> << >>]

\* nothing minted yet
NoGrant ==
    [org |-> << >>, repo |-> << >>, oid |-> "None",
     actions |-> [none |-> TRUE, set |-> {}]]

\* no __call__ yet
NoCall == [out |-> "none", token |-> NoToken, at |-> 0, allowed |-> << >>]

\* JWTAuthenticator.__init__ with key_id = kid
StartJwt(kid) ==
    /\ key_id = kid
    /\ jwt_ticks = 0
    /\ minted = NoToken
    /\ granted = NoGrant
    /\ jwt_out = NoCall

\* size of an object the storage does not hold
Absent == -1

\* no batch request yet
NoBatch ==
    [identity |-> [none |-> TRUE, allowed |-> << >>], operation |-> "",
     objects |-> << >>, calls |-> 0, results |-> << >>, status |-> 0,
     response |-> [transfer |-> "", objects |-> << >>]]

\* an empty storage, no batch request yet
StartBatch ==
    /\ blobs = [oid \in {"o1", "o2"} |-> Absent]
    /\ batch = NoBatch

\* the storage holds nothing under the oid
NoObject == [size |-> Absent, content |-> ""]

\* no storage call yet
NoOp == [op |-> "", oid |-> "", size |-> 0, had |-> NoObject, result |-> ""]

\* storage backend b just constructed on an empty container
StartStorage(b) ==
    /\ backend = b
    /\ disk = [oid \in {"o1", "o2"} |-> NoObject]
    /\ offered = {}
    /\ last_op = NoOp

\* no adapter call yet
StartTransfer ==
    reply = [asked |-> FALSE, adapter |-> "", operation |-> "", oid |-> "",
             size |-> 0, had |-> NoObject, actions |-> {},
             error |-> [set |-> FALSE, code |-> 0]]

\* no block of the blob is staged or committed
NoBlocks == [committed |-> FALSE, staged |-> << >>]

StartAzure ==
    /\ azure_blob = NoBlocks
    /\ azure_reply = [asked |-> FALSE, size |-> 0, part_size |-> 0,
                      blocks |-> << >>, parts |-> << >>, body |-> << >>,
                      deleted |-> FALSE]

\* no payload decoded yet
StartScopes ==
    bearer = [scopes |-> << >>, allowed |-> << >>, fresh |-> FALSE,
              ans |-> FALSE]

\* the adapter is built with the given action_lifetime; no batch reply yet
StartPreauth(lifetime) ==
    /\ action_lifetime = lifetime
    /\ issued = [at |-> 0, actions |-> << >>]
    /\ presented = [name |-> "", at |-> 0, out |-> "none"]

\* a request has not called is_authorized
NoCheck == [asked |-> FALSE, perm |-> "", ans |-> FALSE]

\* no request in progress
StartFlight ==
    /\ fl_pc = [t \in 1..NThreads |-> "idle"]
    /\ fl_key = [t \in 1..NThreads |-> << >>]
    /\ fl_ctx = [k \in {<<"org", "r1">>, <<"org", "r2">>} |-> 0]
    /\ fl_shared = [t \in 1..NThreads |-> FALSE]
    /\ fl_resolved = [t \in 1..NThreads |-> {}]
    /\ fl_checked = [t \in 1..NThreads |-> NoCheck]

\* the authenticator just constructed with token_max_size tms
StartApp(tms) ==
    /\ app_pc = [t \in 1..NThreads |-> "idle"]
    /\ app_org = [t \in 1..NThreads |-> ""]
    /\ app_own = [t \in 1..NThreads |-> ""]
    /\ app_res = [t \in 1..NThreads |-> 0]
    /\ app_ident = [t \in 1..NThreads |-> 0]
    /\ app_raised = [t \in 1..NThreads |-> ""]
    /\ app_ctx = 0
    /\ app_cache = 0
    /\ app_cache_size = tms
    /\ app_ids = << >>
    /\ app_nreq = 0

NoRestrict == CHOOSE cfg \in RestrictConfigs : ~cfg.set

InitAuthn ==
    /\ \E tms \in 0..MaxTokenCache : StartAuthn(tms)
    /\ StartAuthz(0, 0, 0)
    /\ StartRestrict(NoRestrict)
    /\ StartChain(<< >>, "", NoIdentity)
    /\ StartRequest("default")
    /\ StartTree
    /\ StartJwt("None")
    /\ StartBatch
    /\ StartStorage("local")
    /\ StartTransfer
    /\ StartAzure
    /\ StartScopes
    /\ StartPreauth(0)
    /\ StartFlight
    /\ StartApp(0)

\* GithubAuthenticator.__call__: a request with token k arrives and calls
\* self._authenticate(ctx)
Call(t, k) ==
    /\ pc[t] = "idle"
    /\ nreq < MaxReq
    /\ nreq' = nreq + 1
    /\ token' = [token EXCEPT ![t] = k]
    /\ pc' = [pc EXCEPT ![t] = "cm_get_acq"]
    /\ LET others == {o \in Threads \ {t} :
                        pc[o] \in InAuthenticate /\ token[o] = k}
       IN overlap' = [o \in Threads |->
                        IF o = t THEN others
                        ELSE IF o \in others THEN overlap[o] \cup {t}
                        ELSE overlap[o]]
    /\ UNCHANGED <<sctx, result, identity, raised, concurrent_calls, calls,
                   token_cache, cached_users, cache_lock, idcore,
                   token_max_size, joined, called>>
    /\ UNCHANGED frameAuthn

\* 'with lock(self):' entered (cachedmethod and single_call_method share
\* the authenticator's _cache_lock)
Acquire(t, from, to) ==
    /\ pc[t] = from
    /\ cache_lock = 0
    /\ cache_lock' = t
    /\ pc' = [pc EXCEPT ![t] = to]
    /\ UNCHANGED <<token, sctx, result, identity, raised, concurrent_calls,
                   calls, token_cache, cached_users, idcore, token_max_size,
                   joined, called, overlap, nreq>>
    /\ UNCHANGED frameAuthn

cachedmethod_lock_get(t) == Acquire(t, "cm_get_acq", "cm_get")
single_call_lock(t) == Acquire(t, "sc_acq", "sc_in")
single_call_lock_cleanup(t) == Acquire(t, "fin_acq", "fin")
cachedmethod_lock_set(t) == Acquire(t, "cm_set_acq", "cm_set")

\* cachetools.cachedmethod wrapper: 'with lock(self): return c[k]',
\* KeyError -> call the method
cachedmethod_get(t) ==
    /\ pc[t] = "cm_get"
    /\ cache_lock = t
    /\ cache_lock' = 0
    /\ IF InCache(token_cache, token[t])
       THEN /\ token_cache' = Touch(token_cache, token[t])
            /\ identity' = [identity EXCEPT
                  ![t] = token_cache[CacheIndex(token_cache, token[t])].v]
            /\ pc' = [pc EXCEPT ![t] = "done"]
       ELSE /\ pc' = [pc EXCEPT ![t] = "sc_acq"]
            /\ UNCHANGED <<token_cache, identity>>
    /\ UNCHANGED <<token, sctx, result, raised, concurrent_calls, calls,
                   cached_users, idcore, token_max_size, joined, called,
                   overlap, nreq>>
    /\ UNCHANGED frameAuthn

\* variant of release that keeps the owner's hold
Release_keeps_hold(c) == c

\* RLock.release(): one level of the owner's hold
Release(c) ==
    IF c.count <= 1 THEN [c EXCEPT !.owner = 0, !.count = 0]
    ELSE [c EXCEPT !.count = c.count - 1]

\* variant of single_call_enter that never looks the key up
single_call_enter_always_new(t) ==
    /\ pc[t] = "sc_in"
    /\ cache_lock = t
    /\ cache_lock' = 0
    /\ calls' = Append(calls,
          [SingleCallContext(t, token[t]) EXCEPT !.owner = t, !.count = 1])
    /\ concurrent_calls' =
          [concurrent_calls EXCEPT ![token[t]] = Len(calls) + 1]
    /\ sctx' = [sctx EXCEPT ![t] = Len(calls) + 1]
    /\ joined' = [joined EXCEPT ![t] = sctx'[t]]
    /\ pc' = [pc EXCEPT ![t] = "sc_rlock"]
    /\ UNCHANGED <<token, result, identity, raised, token_cache,
                   cached_users, idcore, token_max_size, called, overlap,
                   nreq>>
    /\ UNCHANGED frameAuthn

\* single_call_method wrapper, 'with lck:' block: find the context of the
\* key, or create it and take its rlock for the creating thread
single_call_enter(t) ==
    /\ pc[t] = "sc_in"
    /\ cache_lock = t
    /\ cache_lock' = 0
    /\ IF concurrent_calls[token[t]] # 0
       THEN /\ sctx' = [sctx EXCEPT ![t] = concurrent_calls[token[t]]]
            /\ UNCHANGED <<calls, concurrent_calls>>
       ELSE /\ calls' = Append(calls,
                  [SingleCallContext(t, token[t]) EXCEPT
                      !.owner = t, !.count = 1])
            /\ concurrent_calls' =
                  [concurrent_calls EXCEPT ![token[t]] = Len(calls) + 1]
            /\ sctx' = [sctx EXCEPT ![t] = Len(calls) + 1]
    /\ joined' = [joined EXCEPT ![t] = sctx'[t]]
    /\ pc' = [pc EXCEPT ![t] = "sc_rlock"]
    /\ UNCHANGED <<token, result, identity, raised, token_cache,
                   cached_users, idcore, token_max_size, called, overlap,
                   nreq>>
    /\ UNCHANGED frameAuthn

\* 'with ctx.rlock:' entered; blocks while another thread owns the rlock
single_call_rlock(t) ==
    /\ pc[t] = "sc_rlock"
    /\ calls[sctx[t]].owner \in {0, t}
    /\ calls' = [calls EXCEPT ![sctx[t]] =
                    [@ EXCEPT !.owner = t, !.count = @ + 1]]
    /\ pc' = [pc EXCEPT ![t] = "sc_check"]
    /\ UNCHANGED <<token, sctx, result, identity, raised, concurrent_calls,
                   token_cache, cached_users, cache_lock, idcore,
                   token_max_size, joined, called, overlap, nreq>>
    /\ UNCHANGED frameAuthn

\* 'if ctx.start_call:' -- the primary clears the flag and drops the
\* starting lock, every other thread goes to the else branch
single_call_check(t) ==
    /\ pc[t] = "sc_check"
    /\ IF calls[sctx[t]].start_call
       THEN /\ calls' = [calls EXCEPT ![sctx[t]] =
                           Release([@ EXCEPT !.start_call = FALSE])]
            /\ pc' = [pc EXCEPT ![t] = "method"]
       ELSE /\ pc' = [pc EXCEPT ![t] = "sc_else"]
            /\ UNCHANGED calls
    /\ UNCHANGED <<token, sctx, result, identity, raised, concurrent_calls,
                   token_cache, cached_users, cache_lock, idcore,
                   token_max_size, joined, called, overlap, nreq>>
    /\ UNCHANGED frameAuthn

\* the underlying method, GithubUserIdentity.authenticate: GET /user;
\* a failed request raises Unauthorized, which the wrapper stores in
\* ctx.error
authenticate_api(t, ok) ==
    /\ pc[t] = "method"
    /\ called' = [called EXCEPT ![t] = TRUE]
    /\ IF ok
       THEN /\ pc' = [pc EXCEPT ![t] = "m_users"]
            /\ UNCHANGED calls
       ELSE /\ calls' = [calls EXCEPT ![sctx[t]].error = TRUE]
            /\ pc' = [pc EXCEPT ![t] = "fin_acq"]
    /\ UNCHANGED <<token, sctx, result, identity, raised, concurrent_calls,
                   token_cache, cached_users, cache_lock, idcore,
                   token_max_size, joined, overlap, nreq>>
    /\ UNCHANGED frameAuthn

\* variant of authenticate_user that constructs an identity every time
authenticate_user_always_new(t) ==
    /\ pc[t] = "m_users"
    /\ idcore' = Append(idcore, UserOf(token[t]))
    /\ cached_users' =
          [cached_users EXCEPT ![UserOf(token[t])] = Len(idcore) + 1]
    /\ result' = [result EXCEPT ![t] = Len(idcore) + 1]
    /\ calls' = [calls EXCEPT ![sctx[t]].returned = result'[t]]
    /\ pc' = [pc EXCEPT ![t] = "fin_acq"]
    /\ UNCHANGED <<token, sctx, identity, raised, concurrent_calls,
                   token_cache, cache_lock, token_max_size, joined, called,
                   overlap, nreq>>
    /\ UNCHANGED frameAuthn

\* GithubUserIdentity.authenticate, 'with cls._cache_lock:' block: reuse the
\* identity of the user when the weak map has it, else construct and
\* register one; the method returns it
authenticate_user(t) ==
    /\ pc[t] = "m_users"
    /\ LET u == UserOf(token[t]) IN
       IF cached_users[u] # 0
       THEN /\ result' = [result EXCEPT ![t] = cached_users[u]]
            /\ UNCHANGED <<idcore, cached_users>>
       ELSE /\ idcore' = Append(idcore, u)
            /\ cached_users' = [cached_users EXCEPT ![u] = Len(idcore) + 1]
            /\ result' = [result EXCEPT ![t] = Len(idcore) + 1]
    /\ calls' = [calls EXCEPT ![sctx[t]].returned = result'[t]]
    /\ pc' = [pc EXCEPT ![t] = "fin_acq"]
    /\ UNCHANGED <<token, sctx, identity, raised, concurrent_calls,
                   token_cache, cache_lock, token_max_size, joined, called,
                   overlap, nreq>>
    /\ UNCHANGED frameAuthn

\* variant of single_call_cleanup that keeps the entry of a failed call
single_call_cleanup_success_only(t) ==
    /\ pc[t] = "fin"
    /\ cache_lock = t
    /\ cache_lock' = 0
    /\ concurrent_calls' =
          IF calls[sctx[t]].error THEN concurrent_calls
          ELSE [concurrent_calls EXCEPT ![token[t]] = 0]
    /\ pc' = [pc EXCEPT ![t] = "sc_exit"]
    /\ UNCHANGED <<token, sctx, result, identity, raised, calls,
                   token_cache, cached_users, idcore, token_max_size,
                   joined, called, overlap, nreq>>
    /\ UNCHANGED frameAuthn

\* 'finally: with lck: del concurrent_calls[k]'
single_call_cleanup(t) ==
    /\ pc[t] = "fin"
    /\ cache_lock = t
    /\ cache_lock' = 0
    /\ concurrent_calls' = [concurrent_calls EXCEPT ![token[t]] = 0]
    /\ pc' = [pc EXCEPT ![t] = "sc_exit"]
    /\ UNCHANGED <<token, sctx, result, identity, raised, calls,
                   token_cache, cached_users, idcore, token_max_size,
                   joined, called, overlap, nreq>>
    /\ UNCHANGED frameAuthn

\* the primary leaves 'with ctx.rlock:': the exception propagates, or
\* 'ctx.result = result; return result'
single_call_exit(t) ==
    /\ pc[t] = "sc_exit"
    /\ IF calls[sctx[t]].error
       THEN /\ raised' = [raised EXCEPT ![t] = sctx[t]]
            /\ calls' = [calls EXCEPT ![sctx[t]] = Release(@)]
            /\ pc' = [pc EXCEPT ![t] = "done"]
       ELSE /\ calls' = [calls EXCEPT ![sctx[t]] =
                           Release([@ EXCEPT !.result = result[t]])]
            /\ pc' = [pc EXCEPT ![t] = "cm_set_acq"]
            /\ UNCHANGED raised
    /\ sctx' = [sctx EXCEPT ![t] = 0]
    /\ cached_users' = Sweep(cached_users, token_cache, result, identity,
                             sctx', calls')
    /\ UNCHANGED <<token, result, identity, concurrent_calls, token_cache,
                   cache_lock, idcore, token_max_size, joined, called,
                   overlap, nreq>>
    /\ UNCHANGED frameAuthn

\* variant of single_call_else that hands out ctx.result without looking
\* at ctx.error
single_call_else_ignore_error(t) ==
    /\ pc[t] = "sc_else"
    /\ result' = [result EXCEPT ![t] = calls[sctx[t]].result]
    /\ pc' = [pc EXCEPT ![t] = "cm_set_acq"]
    /\ calls' = [calls EXCEPT ![sctx[t]] = Release(@)]
    /\ sctx' = [sctx EXCEPT ![t] = 0]
    /\ cached_users' = Sweep(cached_users, token_cache, result', identity,
                             sctx', calls')
    /\ UNCHANGED <<token, identity, raised, concurrent_calls, token_cache,
                   cache_lock, idcore, token_max_size, joined, called,
                   overlap, nreq>>
    /\ UNCHANGED frameAuthn

\* a thread that found the context of a call in flight: 'if ctx.error:
\* raise ctx.error', else 'return ctx.result'
single_call_else(t) ==
    /\ pc[t] = "sc_else"
    /\ IF calls[sctx[t]].error
       THEN /\ raised' = [raised EXCEPT ![t] = sctx[t]]
            /\ pc' = [pc EXCEPT ![t] = "done"]
            /\ UNCHANGED result
       ELSE /\ result' = [result EXCEPT ![t] = calls[sctx[t]].result]
            /\ pc' = [pc EXCEPT ![t] = "cm_set_acq"]
            /\ UNCHANGED raised
    /\ calls' = [calls EXCEPT ![sctx[t]] = Release(@)]
    /\ sctx' = [sctx EXCEPT ![t] = 0]
    /\ cached_users' = Sweep(cached_users, token_cache, result', identity,
                             sctx', calls')
    /\ UNCHANGED <<token, identity, concurrent_calls, token_cache,
                   cache_lock, idcore, token_max_size, joined, called,
                   overlap, nreq>>
    /\ UNCHANGED frameAuthn

\* cachetools.cachedmethod wrapper: 'with lock(self): return
\* c.setdefault(k, v)'; ValueError (value too large) -> return v
cachedmethod_set(t) ==
    /\ pc[t] = "cm_set"
    /\ cache_lock = t
    /\ cache_lock' = 0
    /\ IF InCache(token_cache, token[t])
       THEN /\ token_cache' = Touch(token_cache, token[t])
            /\ identity' = [identity EXCEPT
                  ![t] = token_cache[CacheIndex(token_cache, token[t])].v]
       ELSE IF token_max_size < 1
       THEN /\ identity' = [identity EXCEPT ![t] = result[t]]
            /\ UNCHANGED token_cache
       ELSE /\ token_cache' = Insert(token_cache, token[t], result[t],
                                     token_max_size)
            /\ identity' = [identity EXCEPT ![t] = result[t]]
    /\ result' = [result EXCEPT ![t] = 0]
    /\ cached_users' = Sweep(cached_users, token_cache', result', identity',
                             sctx, calls)
    /\ pc' = [pc EXCEPT ![t] = "done"]
    /\ UNCHANGED <<token, sctx, raised, concurrent_calls, calls, idcore,
                   token_max_size, joined, called, overlap, nreq>>
    /\ UNCHANGED frameAuthn

\* the request ends: __call__ returned or raised, the frame's references
\* are dropped
End(t) ==
    /\ pc[t] = "done"
    /\ pc' = [pc EXCEPT ![t] = "idle"]
    /\ token' = [token EXCEPT ![t] = "none"]
    /\ identity' = [identity EXCEPT ![t] = 0]
    /\ raised' = [raised EXCEPT ![t] = 0]
    /\ joined' = [joined EXCEPT ![t] = 0]
    /\ called' = [called EXCEPT ![t] = FALSE]
    /\ overlap' = [o \in Threads |-> IF o = t THEN {} ELSE overlap[o] \ {t}]
    /\ cached_users' = Sweep(cached_users, token_cache, result, identity',
                             sctx, calls)
    /\ UNCHANGED <<sctx, result, concurrent_calls, calls, token_cache,
                   cache_lock, idcore, token_max_size, nreq>>
    /\ UNCHANGED frameAuthn

NextAuthn ==
    \E t \in Threads :
        \/ \E k \in Tokens : Call(t, k)
        \/ cachedmethod_lock_get(t)
        \/ cachedmethod_get(t)
        \/ single_call_lock(t)
        \/ single_call_enter(t)
        \/ single_call_rlock(t)
        \/ single_call_check(t)
        \/ \E ok \in BOOLEAN : authenticate_api(t, ok)
        \/ authenticate_user(t)
        \/ single_call_lock_cleanup(t)
        \/ single_call_cleanup(t)
        \/ single_call_exit(t)
        \/ single_call_else(t)
        \/ cachedmethod_lock_set(t)
        \/ cachedmethod_set(t)
        \/ End(t)

SpecAuthn == InitAuthn /\ [][NextAuthn]_vars

\* ------------------------------------------------------ SpecAuthn claims
\* the thread's call found the context of another thread's call in flight
Waiter(t) == joined[t] # 0 /\ calls[joined[t]].creator # t
\* positions of a primary between creating its context and deleting it
InFlight == {"sc_rlock", "sc_check", "method", "m_users", "fin_acq", "fin"}
\* positions after the single-call wrapper returned a value
Returned == {"cm_set_acq", "cm_set"}

\* C1: for one key at most one thread executes the underlying method at a
\* time; a thread that arrives while the call is in flight never executes
\* the method, passes the context's rlock only after the primary has left
\* it, and returns the value the primary's method call returned.
C1_SingleFlight ==
    /\ \A k \in Tokens :
          Cardinality({t \in Threads :
                          pc[t] \in InMethod /\ token[t] = k}) <= 1
    /\ \A t \in Threads : Waiter(t) =>
          /\ ~called[t]
          /\ pc[t] \notin InMethod
          /\ pc[t] \in {"sc_check", "sc_else"} =>
                /\ calls[joined[t]].owner = t
                /\ sctx[calls[joined[t]].creator] # joined[t]
          /\ pc[t] \in Returned =>
                /\ result[t] # 0
                /\ result[t] = calls[joined[t]].returned

\* a waiter has come back from the wrapper with the primary's value
C1_Witness ==
    \E t \in Threads :
        Waiter(t) /\ pc[t] = "cm_set_acq" /\ result[t] # 0

\* C2: requests whose _authenticate calls overlap, with the same token
\* (the token cache being enabled), that all received an identity: one
\* GET /user between them, and the same identity instance.
C2_ExactlyOneUpstreamCall ==
    \A t1, t2 \in Threads :
        (/\ token_max_size >= 1
         /\ t1 # t2
         /\ t2 \in overlap[t1]
         /\ token[t1] = token[t2]
         /\ identity[t1] # 0
         /\ identity[t2] # 0)
        => /\ ~(called[t1] /\ called[t2])
           /\ identity[t1] = identity[t2]

\* C3: when the primary call raised, every thread of its cohort that has
\* left the wrapper left it by raising that same exception, holding no
\* value.
C3_ErrorToCohort ==
    \A t \in Threads :
        (/\ joined[t] # 0
         /\ calls[joined[t]].error
         /\ sctx[t] = 0)
        => /\ pc[t] = "done"
           /\ raised[t] = joined[t]
           /\ result[t] = 0
           /\ identity[t] = 0

\* a blocked caller has re-raised the primary's exception
C3_Witness ==
    \E t \in Threads :
        Waiter(t) /\ pc[t] = "done" /\ raised[t] = joined[t]

\* C4: the entry of a key is present only while its primary is in flight
\* (it is gone once the primary completed, by return or by raise), nothing
\* a failed call produced is in the token cache, and a call that enters
\* the wrapper while no call of its key is in flight becomes a primary,
\* which executes the method.
C4_EntryCleanedUp ==
    /\ [](/\ \A k \in Tokens : concurrent_calls[k] # 0 =>
                LET c == concurrent_calls[k] IN
                /\ sctx[calls[c].creator] = c
                /\ pc[calls[c].creator] \in InFlight
                /\ calls[c].key = k
          /\ \A j \in 1..Len(token_cache) :
                token_cache[j].v \in 1..Len(idcore))
    /\ [][\A t \in Threads :
            (/\ pc[t] = "sc_in"
             /\ pc'[t] = "sc_rlock"
             /\ ~\E o \in Threads \ {t} :
                    pc[o] \in InFlight /\ token[o] = token[t])
            => /\ calls'[sctx'[t]].creator = t
               /\ calls'[sctx'[t]].start_call]_vars

\* a key whose call failed has been called again, and the method ran again
C4_Witness ==
    \E c1, c2 \in 1..Len(calls) :
        /\ c1 < c2
        /\ calls[c1].key = calls[c2].key
        /\ calls[c1].error
        /\ calls[c2].returned # 0

\* identity objects that some strong reference keeps alive
LiveIdentities ==
    {i \in 1..Len(idcore) :
        Referenced(i, token_cache, result, identity, sctx, calls)}

\* C5: no two distinct live identity objects belong to the same user, and
\* the weak map entry of a user is its live identity.
C5_OneIdentityPerUser ==
    /\ \A i, j \in LiveIdentities : idcore[i] = idcore[j] => i = j
    /\ \A i \in LiveIdentities : cached_users[idcore[i]] = i

\* two requests with different tokens of one user hold the same identity
C5_Witness ==
    \E t1, t2 \in Threads :
        /\ token[t1] # token[t2]
        /\ identity[t1] # 0
        /\ identity[t1] = identity[t2]
        /\ called[t1] /\ called[t2]

\* ------------------------------------------------------------- SpecAuthz
Max(a, b) == IF a >= b THEN a ELSE b

\* variant of _perm_ttl with the two TTLs exchanged
_perm_ttl_exchanged(perms) ==
    IF "WRITE" \in perms THEN auth_other_ttl ELSE auth_write_ttl

\* GithubIdentity.__init__._perm_ttl
_perm_ttl(perms) ==
    IF "WRITE" \in perms THEN auth_write_ttl ELSE auth_other_ttl

\* expiration(least_ttl): the 'ttu' of the main cache (least_ttl None) and
\* of the read proxy (least_ttl 60.0)
expiration(least_ttl, value, t) ==
    IF least_ttl <= 0 THEN t + _perm_ttl(value)
    ELSE t + Max(_perm_ttl(value), least_ttl)

\* cachetools.TLRUCache, as a sequence of items in LRU order (least
\* recently used first).  'born' is an observation: when the authorizer
\* wrote the value.
\* TLRUCache.expire(time)
Expire(c, t) == SelectSeq(c, LAMBDA e : t < e.expires)
\* TLRUCache.__contains__
Contains(c, k, t) == \E j \in 1..Len(c) : c[j].key = k /\ t < c[j].expires
ItemIndex(c, k) == CHOOSE j \in 1..Len(c) : c[j].key = k
\* TLRUCache.__getitem__: the value; the item becomes most recently used
GetItem(c, k) == c[ItemIndex(c, k)].value
MoveToEnd(c, k) == Append(Remove(c, ItemIndex(c, k)), c[ItemIndex(c, k)])
\* TLRUCache.__delitem__
DelItem(c, k) == SelectSeq(c, LAMBDA e : e.key # k)
\* TLRUCache.__setitem__ (bounded TRUE: maxsize, FALSE: math.inf); a value
\* that is already expired is skipped, a value too large for the cache is
\* refused (the ValueError the callers suppress), a new key evicts least
\* recently used items until it fits
SetItem(c, k, v, expires, born, bounded, maxsize, t) ==
    IF ~(t < expires) THEN c
    ELSE LET c1 == Expire(c, t)
             item == [key |-> k, value |-> v, expires |-> expires,
                      born |-> born]
         IN IF bounded /\ 1 > maxsize THEN c1
            ELSE IF \E j \in 1..Len(c1) : c1[j].key = k
            THEN Append(DelItem(c1, k), item)
            ELSE IF bounded /\ Len(c1) + 1 > maxsize
            THEN Append(SubSeq(c1, Len(c1) - maxsize + 2, Len(c1)), item)
            ELSE Append(c1, item)

\* variant of _set_permissions that always takes the casual branch
_set_permissions_main_only(px, mc, key, perm_set, casual, t) ==
    [proxy |-> px,
     main |-> SetItem(mc, key, perm_set, expiration(0, perm_set, t), t,
                      TRUE, auth_max_size, t)]

\* GithubIdentity._set_permissions: the new (proxy, main) caches
_set_permissions(px, mc, key, perm_set, casual, t) ==
    IF casual
    THEN [proxy |-> px,
          main |-> SetItem(mc, key, perm_set, expiration(0, perm_set, t), t,
                           TRUE, auth_max_size, t)]
    ELSE [proxy |-> SetItem(px, key, perm_set,
                            expiration(LeastTtl, perm_set, t), t,
                            FALSE, 0, t),
          main |-> mc]

\* variant of _permissions whose authoritative read does not move the
\* proxy's entry to the regular cache
_permissions_pop_only(px, mc, key, authoritative, t) ==
    IF ~Contains(px, key, t)
    THEN IF Contains(mc, key, t)
         THEN [found |-> TRUE, perms |-> GetItem(mc, key), proxy |-> px,
               main |-> MoveToEnd(mc, key)]
         ELSE [found |-> FALSE, perms |-> {}, proxy |-> px, main |-> mc]
    ELSE IF authoritative
         THEN [found |-> TRUE, perms |-> GetItem(px, key),
               proxy |-> DelItem(px, key), main |-> mc]
         ELSE [found |-> TRUE, perms |-> GetItem(px, key),
               proxy |-> MoveToEnd(px, key), main |-> mc]

\* GithubIdentity._permissions: found FALSE is the None result; the new
\* (proxy, main) caches
_permissions(px, mc, key, authoritative, t) ==
    IF ~Contains(px, key, t)
    THEN \* not in the proxy: self._auth_cache.get(key)
         IF Contains(mc, key, t)
         THEN [found |-> TRUE, perms |-> GetItem(mc, key), proxy |-> px,
               main |-> MoveToEnd(mc, key)]
         ELSE [found |-> FALSE, perms |-> {}, proxy |-> px, main |-> mc]
    ELSE LET permission == GetItem(px, key)
             born == px[ItemIndex(px, key)].born
         IN IF authoritative
            THEN \* popped from the proxy and moved to the regular cache
                 [found |-> TRUE, perms |-> permission,
                  proxy |-> DelItem(px, key),
                  main |-> SetItem(mc, key, permission,
                                   expiration(0, permission, t), born,
                                   TRUE, auth_max_size, t)]
            ELSE [found |-> TRUE, perms |-> permission,
                  proxy |-> MoveToEnd(px, key), main |-> mc]

\* GithubUserIdentity._authorize: GitHub's permission as a permission set
GhToPermissions(gh) ==
    IF gh \in {"admin", "write"} THEN Permission
    ELSE IF gh = "read" THEN {"READ", "READ_META"}
    ELSE {}

InitAuthz ==
    /\ \E ms \in 0..MaxAuthCache, wt \in WriteTtls, ot \in OtherTtls :
          StartAuthz(ms, wt, ot)
    /\ StartAuthn(0)
    /\ StartRestrict(NoRestrict)
    /\ StartChain(<< >>, "", NoIdentity)
    /\ StartRequest("default")
    /\ StartTree
    /\ StartJwt("None")
    /\ StartBatch
    /\ StartStorage("local")
    /\ StartTransfer
    /\ StartAzure
    /\ StartScopes
    /\ StartPreauth(0)
    /\ StartFlight
    /\ StartApp(0)

\* GithubIdentity.authorize (one caller): nothing to do when permissions
\* are cached, else GithubUserIdentity._authorize asks GitHub and saves
\* the permission set
authorize(key, gh) ==
    /\ LET r == _permissions(auth_cache_read_proxy, auth_cache, key, FALSE,
                             now)
       IN IF r.found
          THEN /\ auth_cache_read_proxy' = r.proxy
               /\ auth_cache' = r.main
               /\ UNCHANGED last_auth
          ELSE LET w == _set_permissions(r.proxy, r.main, key,
                                         GhToPermissions(gh), FALSE, now)
               IN /\ auth_cache_read_proxy' = w.proxy
                  /\ auth_cache' = w.main
                  /\ last_auth' = [last_auth EXCEPT ![key] =
                        [time |-> now, perms |-> GhToPermissions(gh),
                         read |-> "pending"]]
    /\ UNCHANGED <<now, auth_max_size, auth_write_ttl, auth_other_ttl,
                   answer>>
    /\ UNCHANGED frameAuthz

\* GithubIdentity.is_authorized: the authoritative read
is_authorized(key, permission) ==
    /\ LET r == _permissions(auth_cache_read_proxy, auth_cache, key, TRUE,
                             now)
       IN /\ auth_cache_read_proxy' = r.proxy
          /\ auth_cache' = r.main
          /\ answer' = (r.found /\ permission \in r.perms)
          /\ last_auth' =
                IF last_auth[key].read = "pending"
                THEN [last_auth EXCEPT
                        ![key].read =
                            IF r.found /\ r.perms = last_auth[key].perms
                            THEN "observed" ELSE "missed"]
                ELSE last_auth
    /\ UNCHANGED <<now, auth_max_size, auth_write_ttl, auth_other_ttl>>
    /\ UNCHANGED frameAuthz

\* time passes; items that expired are invisible to every operation of the
\* caches and are dropped by the next one that looks (expire), so they are
\* dropped here
Tick ==
    /\ now + TimeStep <= MaxTime
    /\ now' = now + TimeStep
    /\ auth_cache' = Expire(auth_cache, now')
    /\ auth_cache_read_proxy' = Expire(auth_cache_read_proxy, now')
    /\ UNCHANGED <<auth_max_size, auth_write_ttl, auth_other_ttl, last_auth,
                   answer>>
    /\ UNCHANGED frameAuthz

NextAuthz ==
    \/ \E key \in OrgRepos, gh \in GhPermissions : authorize(key, gh)
    \/ \E key \in OrgRepos, permission \in Permission :
          is_authorized(key, permission)
    \/ Tick

SpecAuthz == InitAuthz /\ [][NextAuthz]_vars

\* ------------------------------------------------------ SpecAuthz claims
\* the TTL the configuration gives a permission set
ConfiguredTtl(perms) ==
    IF "WRITE" \in perms THEN auth_write_ttl ELSE auth_other_ttl
\* how long the read proxy keeps a permission set: at least 60 s
ProxyTtl(perms) == Max(ConfiguredTtl(perms), LeastTtl)
\* authorize() finds the permissions of the (org, repo) cached
Cached(key) ==
    _permissions(auth_cache_read_proxy, auth_cache, key, FALSE, now).found

\* C6 (as claimed): the permission set the authorizer wrote for an
\* (org, repo) is what the next is_authorized call for that (org, repo)
\* gets, whenever that call is made.
C6_FreshWriteObserved ==
    \A key \in OrgRepos : last_auth[key].read # "missed"

\* C6 (amended): the first is_authorized call for the (org, repo) that is
\* made before the read proxy drops the entry, max(ttl, 60 s) after the
\* write, gets the permission set the authorizer wrote, whatever the size
\* and the content of the main cache.
C6_FreshWriteObservedInTime ==
    [][\A key \in OrgRepos :
        (/\ last_auth[key].read = "pending"
         /\ last_auth'[key].read # "pending"
         /\ now < last_auth[key].time + ProxyTtl(last_auth[key].perms))
        => last_auth'[key].read = "observed"]_vars

\* a fresh write was observed by a cache of capacity zero
C6_Witness ==
    /\ auth_max_size = 0
    /\ \E key \in OrgRepos :
          /\ last_auth[key].read = "observed"
          /\ ~Contains(auth_cache, key, now)

\* C7 (as claimed): once the authorizer wrote a permission set, a
\* write-capable one stays cached for at least auth_write_ttl, and any one
\* for less than its ttl + the proxy's ttl.
C7_TtlBounds ==
    \A key \in OrgRepos :
        last_auth[key].read # "none" =>
            /\ ("WRITE" \in last_auth[key].perms
                /\ now < last_auth[key].time + auth_write_ttl)
               => Cached(key)
            /\ Cached(key) =>
                  now < last_auth[key].time
                        + ConfiguredTtl(last_auth[key].perms)
                        + ProxyTtl(last_auth[key].perms)

\* C7 (amended): a cached authorization is gone ttl + max(ttl, 60 s) after
\* the authorizer wrote it (ttl: auth_write_ttl for a write-capable set,
\* auth_other_ttl otherwise); a write-capable one stays for at least
\* auth_write_ttl when the main cache has room for every (org, repo) in
\* use, so that it neither refuses nor evicts the entry.
C7_TtlBoundsWithRoom ==
    \A key \in OrgRepos :
        last_auth[key].read # "none" =>
            /\ (/\ auth_max_size >= Cardinality(OrgRepos)
                /\ "WRITE" \in last_auth[key].perms
                /\ now < last_auth[key].time + auth_write_ttl)
               => /\ Cached(key)
                  /\ _permissions(auth_cache_read_proxy, auth_cache, key,
                                  FALSE, now).perms = last_auth[key].perms
            /\ Cached(key) =>
                  now < last_auth[key].time
                        + ConfiguredTtl(last_auth[key].perms)
                        + ProxyTtl(last_auth[key].perms)

\* a write-capable authorization that outlived auth_write_ttl
C7_Witness ==
    \E key \in OrgRepos :
        /\ "WRITE" \in last_auth[key].perms
        /\ last_auth[key].read = "observed"
        /\ auth_write_ttl > 0
        /\ now >= last_auth[key].time + auth_write_ttl
        /\ Cached(key)

\* ---------------------------------------------------------- SpecRestrict
\* Python truth value of cfg.restrict_to: None and {} are false
RestrictToTruthy(cfg) ==
    cfg.set /\ \E o \in Orgs : cfg.map[o].kind # "absent"

\* CallContext._extract_auth: the exception it raises, "none" if it
\* returns user and token
_extract_auth(auth) ==
    IF auth = "none" THEN "Unauthorized"
    ELSE IF auth = "notoken" THEN "Unauthorized"
    ELSE "none"

\* CallContext._check_restricted_to: the exception it raises, "none" if
\* it returns; 'if rest_repos and ...' is false for None and for []
_check_restricted_to(cfg, org, repo) ==
    IF RestrictToTruthy(cfg)
    THEN IF cfg.map[org].kind = "absent" THEN "Unauthorized"
         ELSE IF cfg.map[org].repos # {} /\ repo \notin cfg.map[org].repos
              THEN "Unauthorized"
              ELSE "none"
    ELSE "none"

InitRestrict ==
    /\ \E cfg \in RestrictConfigs : StartRestrict(cfg)
    /\ StartAuthn(0)
    /\ StartAuthz(0, 0, 0)
    /\ StartChain(<< >>, "", NoIdentity)
    /\ StartRequest("default")
    /\ StartTree
    /\ StartJwt("None")
    /\ StartBatch
    /\ StartStorage("local")
    /\ StartTransfer
    /\ StartAzure
    /\ StartScopes
    /\ StartPreauth(0)
    /\ StartFlight
    /\ StartApp(0)

\* GithubAuthenticator.__call__ up to the entry of the 'with' block:
\* CallContext(self._cfg, request) runs __post_init__, which reads org and
\* repo, extracts the credentials, then checks the restriction
CallContext_post_init(org, repo, auth) ==
    /\ rpc = "idle"
    /\ nrreq < MaxRestrictReq
    /\ nrreq' = nrreq + 1
    /\ req' = [org |-> org, repo |-> repo, auth |-> auth]
    /\ api_calls' = 0
    /\ LET e1 == _extract_auth(auth)
           e2 == _check_restricted_to(restrict_to, org, repo)
       IN IF e1 # "none"
          THEN ctx_error' = e1 /\ rpc' = "done"
          ELSE IF e2 # "none"
               THEN ctx_error' = e2 /\ rpc' = "done"
               ELSE ctx_error' = "none" /\ rpc' = "authenticate"
    /\ UNCHANGED restrict_to
    /\ UNCHANGED frameRestrict

\* self._authenticate(ctx): a cached token needs no call; else GET /user,
\* whose failure becomes Unauthorized
call_authenticate(hit, ok) ==
    /\ rpc = "authenticate"
    /\ IF hit
       THEN /\ rpc' = "authorize"
            /\ UNCHANGED <<api_calls, ctx_error>>
       ELSE /\ api_calls' = api_calls + 1
            /\ IF ok
               THEN rpc' = "authorize" /\ UNCHANGED ctx_error
               ELSE rpc' = "done" /\ ctx_error' = "Unauthorized"
    /\ UNCHANGED <<restrict_to, req, nrreq>>
    /\ UNCHANGED frameRestrict

\* identity.authorize(ctx): cached permissions need no call; else
\* GET /repos/{org}/{repo}/collaborators/{id}/permission
call_authorize(hit, ok) ==
    /\ rpc = "authorize"
    /\ rpc' = "done"
    /\ IF hit
       THEN UNCHANGED <<api_calls, ctx_error>>
       ELSE /\ api_calls' = api_calls + 1
            /\ ctx_error' = IF ok THEN "none" ELSE "Unauthorized"
    /\ UNCHANGED <<restrict_to, req, nrreq>>
    /\ UNCHANGED frameRestrict

\* __call__ has returned the identity or raised; the next request
call_end ==
    /\ rpc = "done"
    /\ rpc' = "idle"
    /\ UNCHANGED <<restrict_to, req, api_calls, ctx_error, nrreq>>
    /\ UNCHANGED frameRestrict

NextRestrict ==
    \/ \E org \in Orgs, repo \in Repos, auth \in Authorizations :
          CallContext_post_init(org, repo, auth)
    \/ \E hit \in BOOLEAN, ok \in BOOLEAN : call_authenticate(hit, ok)
    \/ \E hit \in BOOLEAN, ok \in BOOLEAN : call_authorize(hit, ok)
    \/ call_end

SpecRestrict == InitRestrict /\ [][NextRestrict]_vars

\* --------------------------------------------------- SpecRestrict claims
\* the request in progress is outside the configured restriction (a
\* restrict_to that lists at least one organization): its organization
\* is not a key of restrict_to, or its repo is not in the organization's
\* list and that list is not None
OutsideRestriction ==
    /\ restrict_to.set
    /\ \E o \in Orgs : restrict_to.map[o].kind # "absent"
    /\ \/ restrict_to.map[req.org].kind = "absent"
       \/ /\ restrict_to.map[req.org].kind = "list"
          /\ req.repo \notin restrict_to.map[req.org].repos

\* C8: with restrict_to configured, a request for an organization that is
\* not listed, or for a repo that is not in the organization's non-null
\* list, ends with Unauthorized and no GitHub API call is made for it.
C8_RestrictedBeforeApi ==
    (rpc # "idle" /\ OutsideRestriction)
        => (rpc = "done" /\ ctx_error = "Unauthorized" /\ api_calls = 0)

\* ------------------------------------------------------------- SpecChain
\* Authentication.init_authenticators: keeps a non-empty list, else
\* builds it from AUTH_PROVIDERS and pushes the pre-authorizing
\* authenticator, if configured, to the front
init_authenticators(cur) ==
    IF cur # <<"unset">> /\ cur # << >>
    THEN cur
    ELSE IF PRE_AUTHORIZED_ACTION_PROVIDER # ""
         THEN <<PRE_AUTHORIZED_ACTION_PROVIDER>> \o AUTH_PROVIDERS
         ELSE AUTH_PROVIDERS

InitChain ==
    /\ \E providers \in ProviderLists, preauth \in {"", "preauth"},
          default \in DefaultIdentities :
          StartChain(providers, preauth, default)
    /\ StartAuthn(0)
    /\ StartAuthz(0, 0, 0)
    /\ StartRestrict(NoRestrict)
    /\ StartRequest("default")
    /\ StartTree
    /\ StartJwt("None")
    /\ StartBatch
    /\ StartStorage("local")
    /\ StartTransfer
    /\ StartAzure
    /\ StartScopes
    /\ StartPreauth(0)
    /\ StartFlight
    /\ StartApp(0)

\* Authentication.get_identity when g.user is an Identity: returns it
get_identity_memo ==
    /\ cpc = "idle"
    /\ Len(returns) < MaxGets
    /\ g_user.kind = "identity"
    /\ returns' = Append(returns, g_user)
    /\ UNCHANGED <<AUTH_PROVIDERS, PRE_AUTHORIZED_ACTION_PROVIDER,
                   default_identity, authenticators, g_user, cpc, ci,
                   trace, chain_result, runs, ncreq>>
    /\ UNCHANGED frameChain

\* get_identity that runs the chain whatever g.user holds
get_identity_begin_always ==
    /\ cpc = "idle"
    /\ Len(returns) < MaxGets
    /\ authenticators' = init_authenticators(authenticators)
    /\ cpc' = "loop"
    /\ ci' = 1
    /\ trace' = << >>
    /\ runs' = runs + 1
    /\ UNCHANGED <<AUTH_PROVIDERS, PRE_AUTHORIZED_ACTION_PROVIDER,
                   default_identity, g_user, chain_result, returns, ncreq>>
    /\ UNCHANGED frameChain

\* Authentication.get_identity when g.user is missing or not an Identity:
\* calls self._authenticate(), which initializes the authenticators and
\* enters the loop (self._authenticators is a list after the
\* initialization)
get_identity_begin ==
    /\ cpc = "idle"
    /\ Len(returns) < MaxGets
    /\ g_user.kind # "identity"
    /\ authenticators' = init_authenticators(authenticators)
    /\ cpc' = "loop"
    /\ ci' = 1
    /\ trace' = << >>
    /\ runs' = runs + 1
    /\ UNCHANGED <<AUTH_PROVIDERS, PRE_AUTHORIZED_ACTION_PROVIDER,
                   default_identity, g_user, chain_result, returns, ncreq>>
    /\ UNCHANGED frameChain

\* a loop that goes on to the next authenticator after Unauthorized
authn_call_continue(out) ==
    /\ cpc = "loop"
    /\ ci <= Len(authenticators)
    /\ trace' = Append(trace, [authn |-> authenticators[ci], out |-> out])
    /\ IF out = "identity"
       THEN /\ chain_result' = NewIdentity(authenticators[ci], runs)
            /\ cpc' = "return"
            /\ UNCHANGED ci
       ELSE /\ ci' = ci + 1
            /\ UNCHANGED <<cpc, chain_result>>
    /\ UNCHANGED <<AUTH_PROVIDERS, PRE_AUTHORIZED_ACTION_PROVIDER,
                   default_identity, authenticators, g_user, runs, returns,
                   ncreq>>
    /\ UNCHANGED frameChain

\* one iteration of the loop of Authentication._authenticate:
\* authn(flask_request) returns an identity, returns None, or raises
\* Unauthorized
authn_call(out) ==
    /\ cpc = "loop"
    /\ ci <= Len(authenticators)
    /\ trace' = Append(trace, [authn |-> authenticators[ci], out |-> out])
    /\ IF out = "identity"
       THEN /\ chain_result' = NewIdentity(authenticators[ci], runs)
            /\ cpc' = "return"
            /\ UNCHANGED ci
       ELSE IF out = "unauthorized"
       THEN /\ chain_result' = NoIdentity
            /\ cpc' = "return"
            /\ UNCHANGED ci
       ELSE /\ ci' = ci + 1
            /\ UNCHANGED <<cpc, chain_result>>
    /\ UNCHANGED <<AUTH_PROVIDERS, PRE_AUTHORIZED_ACTION_PROVIDER,
                   default_identity, authenticators, g_user, runs, returns,
                   ncreq>>
    /\ UNCHANGED frameChain

\* the loop of _authenticate is exhausted: return self._default_identity
authn_default ==
    /\ cpc = "loop"
    /\ ci > Len(authenticators)
    /\ chain_result' = default_identity
    /\ cpc' = "return"
    /\ UNCHANGED <<AUTH_PROVIDERS, PRE_AUTHORIZED_ACTION_PROVIDER,
                   default_identity, authenticators, g_user, ci, trace,
                   runs, returns, ncreq>>
    /\ UNCHANGED frameChain

\* get_identity after the chain: g.user = self._authenticate(), returned
\* when true, else None is returned
get_identity_end ==
    /\ cpc = "return"
    /\ g_user' = chain_result
    /\ returns' = Append(returns, IF chain_result.kind = "identity"
                                  THEN chain_result ELSE NoIdentity)
    /\ cpc' = "idle"
    /\ UNCHANGED <<AUTH_PROVIDERS, PRE_AUTHORIZED_ACTION_PROVIDER,
                   default_identity, authenticators, ci, trace,
                   chain_result, runs, ncreq>>
    /\ UNCHANGED frameChain

\* the request ends and the next one starts with a fresh flask.g
new_request ==
    /\ cpc = "idle"
    /\ ncreq < MaxChainReq
    /\ ncreq' = ncreq + 1
    /\ g_user' = Unset
    /\ returns' = << >>
    /\ runs' = 0
    /\ trace' = << >>
    /\ chain_result' = Unset
    /\ UNCHANGED <<AUTH_PROVIDERS, PRE_AUTHORIZED_ACTION_PROVIDER,
                   default_identity, authenticators, cpc, ci>>
    /\ UNCHANGED frameChain

NextChain ==
    \/ get_identity_memo
    \/ get_identity_begin
    \/ \E out \in {"identity", "none", "unauthorized"} : authn_call(out)
    \/ authn_default
    \/ get_identity_end
    \/ new_request

SpecChain == InitChain /\ [][NextChain]_vars

\* ------------------------------------------------------ SpecChain claims
\* C9: a run of the chain calls the authenticators in list order, each
\* one only after all before it returned null; the first identity an
\* authenticator returns is the result; Unauthorized from an authenticator
\* ends the run with no identity; when every authenticator returned null
\* the result is the default identity.
C9_ChainOrder ==
    /\ Len(trace) <= Len(authenticators)
    /\ \A j \in 1..Len(trace) : trace[j].authn = authenticators[j]
    /\ \A j \in 1..(Len(trace) - 1) : trace[j].out = "none"
    /\ cpc = "return" =>
          IF trace # << >> /\ trace[Len(trace)].out = "identity"
          THEN /\ chain_result.kind = "identity"
               /\ chain_result.by = trace[Len(trace)].authn
          ELSE IF trace # << >> /\ trace[Len(trace)].out = "unauthorized"
          THEN chain_result = NoIdentity
          ELSE /\ Len(trace) = Len(authenticators)
               /\ chain_result = default_identity

\* Unauthorized from the second of three authenticators ended the run
C9_Witness ==
    /\ cpc = "return"
    /\ Len(authenticators) = 3
    /\ Len(trace) = 2
    /\ trace[2].out = "unauthorized"
    /\ default_identity # NoIdentity
    /\ chain_result = NoIdentity

\* C10 (as claimed): within one request the chain runs at most once and
\* all get_identity calls return the same result.
C10_ChainOnce ==
    /\ runs <= 1
    /\ \A i, j \in 1..Len(returns) : returns[i] = returns[j]

\* get_identity calls of the current request that returned None
NullReturns == {i \in 1..Len(returns) : returns[i] = NoIdentity}

\* C10 (amended): once get_identity returned an identity, every later
\* get_identity call of the request returns that same object and the chain
\* is not run again; a run that resolves to no identity is not memoized:
\* each get_identity call that returned None ran the chain.
C10_IdentityMemoized ==
    /\ \A i, j \in 1..Len(returns) :
          (i < j /\ returns[i].kind = "identity") => returns[j] = returns[i]
    /\ Cardinality(NullReturns) <= runs
    /\ runs <= Cardinality(NullReturns) + 1

\* an identity resolved by an authenticator was returned again, the chain
\* having run once
C10_Witness ==
    /\ Len(returns) >= 2
    /\ returns[1].kind = "identity"
    /\ returns[1].by \in Providers
    /\ returns[2] = returns[1]
    /\ runs = 1

\* ----------------------------------------------------------- SpecRequest
\* organization in self._allowed
HasOrg(tree, org) == \E k \in DOMAIN tree : k[1] = org
\* repo in self._allowed[organization]
HasRepo(tree, org, repo) ==
    \E k \in DOMAIN tree : k[1] = org /\ k[2] = repo
\* self._allowed[o][r][i] of the nested defaultdict: reading a missing
\* entry creates it, empty
TreeTouch(tree, k) ==
    IF k \in DOMAIN tree THEN tree
    ELSE [x \in DOMAIN tree \cup {k} |-> IF x = k THEN {} ELSE tree[x]]

\* variant of allow that replaces the entry's set
DefaultIdentity_allow_replace(tree, a) ==
    LET k == <<a.org, a.repo, a.oid>>
        t == TreeTouch(tree, k)
    IN [t EXCEPT ![k] = a.permissions.perms]

\* DefaultIdentity.allow: the new tree
DefaultIdentity_allow(tree, a) ==
    LET k == <<a.org, a.repo, a.oid>>
        t == TreeTouch(tree, k)
    IN IF a.permissions.none
       THEN [t EXCEPT ![k] = {}]
       ELSE [t EXCEPT ![k] = @ \cup a.permissions.perms]

\* DefaultIdentity.is_authorized: the answer and the tree after the call
DefaultIdentity_is_authorized(tree, q) ==
    IF HasOrg(tree, q.org)
    THEN IF HasRepo(tree, q.org, q.repo)
         THEN IF <<q.org, q.repo, q.oid>> \in DOMAIN tree
              THEN [ans |-> q.perm \in tree[<<q.org, q.repo, q.oid>>],
                    tree |-> tree]
              ELSE IF <<q.org, q.repo, "None">> \in DOMAIN tree
              THEN [ans |-> q.perm \in tree[<<q.org, q.repo, "None">>],
                    tree |-> tree]
              ELSE [ans |-> FALSE, tree |-> tree]
         ELSE IF HasRepo(tree, q.org, "None")
         THEN LET t == TreeTouch(tree, <<q.org, "None", "None">>)
              IN [ans |-> q.perm \in t[<<q.org, "None", "None">>],
                  tree |-> t]
         ELSE [ans |-> FALSE, tree |-> tree]
    ELSE IF HasOrg(tree, "None") /\ HasRepo(tree, "None", "None")
    THEN LET t == TreeTouch(tree, <<"None", "None", q.oid>>)
         IN [ans |-> q.perm \in t[<<"None", "None", q.oid>>], tree |-> t]
    ELSE [ans |-> FALSE, tree |-> tree]

\* GithubIdentity.is_authorized: the answer, the permission set it was
\* taken from, and the caches after the call
GithubIdentity_is_authorized(px, mc, q, t) ==
    LET r == _permissions(px, mc, <<q.org, q.repo>>, TRUE, t)
    IN [ans |-> r.found /\ r.perms # {} /\ q.perm \in r.perms,
        perms |-> r.perms, proxy |-> r.proxy, main |-> r.main]

InitRequest ==
    /\ \/ /\ StartRequest("default")
          /\ StartAuthz(0, 0, 0)
       \/ /\ StartRequest("github")
          /\ \E ms \in 0..MaxAuthCache, wt \in WriteTtls, ot \in OtherTtls :
                StartAuthz(ms, wt, ot)
    /\ StartAuthn(0)
    /\ StartRestrict(NoRestrict)
    /\ StartChain(<< >>, "", NoIdentity)
    /\ StartTree
    /\ StartJwt("None")
    /\ StartBatch
    /\ StartStorage("local")
    /\ StartTransfer
    /\ StartAzure
    /\ StartScopes
    /\ StartPreauth(0)
    /\ StartFlight
    /\ StartApp(0)

\* a request authenticated by JWTAuthenticator._get_identity: a new
\* DefaultIdentity, one allow call for each scope of the token; the
\* identity is dropped with the request, so one such request is followed
rq_default_call(a1, a2) ==
    /\ id_kind = "default"
    /\ rq_pc = "idle"
    /\ nrq = 0
    /\ nrq' = 1
    /\ allowed' = DefaultIdentity_allow(DefaultIdentity_allow(<< >>, a1), a2)
    /\ rq_pc' = "request"
    /\ nqueries' = 0
    /\ watch' = NoWatch
    /\ UNCHANGED id_kind
    /\ UNCHANGED varsAuthz
    /\ UNCHANGED frameRequest

\* a request authenticated by GithubAuthenticator.__call__: the cached
\* identity of the token, then identity.authorize(ctx) for the request's
\* (org, repo)
rq_github_call(key, gh) ==
    /\ id_kind = "github"
    /\ rq_pc = "idle"
    /\ nrq < MaxRq
    /\ nrq' = nrq + 1
    /\ LET r == _permissions(auth_cache_read_proxy, auth_cache, key, FALSE,
                             now)
           w == _set_permissions(r.proxy, r.main, key, GhToPermissions(gh),
                                 FALSE, now)
       IN IF r.found
          THEN auth_cache_read_proxy' = r.proxy /\ auth_cache' = r.main
          ELSE auth_cache_read_proxy' = w.proxy /\ auth_cache' = w.main
    /\ rq_pc' = "request"
    /\ nqueries' = 0
    /\ watch' = NoWatch
    /\ UNCHANGED <<id_kind, allowed>>
    /\ UNCHANGED <<now, auth_max_size, auth_write_ttl, auth_other_ttl,
                   last_auth, answer>>
    /\ UNCHANGED frameRequest

\* the first query of the request is remembered with its answer; the
\* answer to each repetition of it is remembered next to it
Watched(q, ans, perms) ==
    IF watch.first = "none"
    THEN [q |-> q, first |-> ans, last |-> ans, n |-> 1, perms |-> perms]
    ELSE IF watch.q = q
    THEN [watch EXCEPT !.last = ans, !.n = 2]
    ELSE watch

\* BaseView._is_authorized: identity.is_authorized(org, repo, permission,
\* oid) on the identity of the request
rq_query(q) ==
    /\ rq_pc = "request"
    /\ nqueries < MaxQueries
    /\ nqueries' = nqueries + 1
    /\ IF id_kind = "default"
       THEN LET r == DefaultIdentity_is_authorized(allowed, q)
            IN /\ allowed' = r.tree
               /\ watch' = Watched(q, IF r.ans THEN "yes" ELSE "no", {})
               /\ UNCHANGED <<auth_cache, auth_cache_read_proxy>>
       ELSE LET r == GithubIdentity_is_authorized(auth_cache_read_proxy,
                                                  auth_cache, q, now)
            IN /\ q \in GithubQueries
               /\ auth_cache_read_proxy' = r.proxy
               /\ auth_cache' = r.main
               /\ watch' = Watched(q, IF r.ans THEN "yes" ELSE "no",
                                   r.perms)
               /\ UNCHANGED allowed
    /\ UNCHANGED <<id_kind, rq_pc, nrq>>
    /\ UNCHANGED <<now, auth_max_size, auth_write_ttl, auth_other_ttl,
                   last_auth, answer>>
    /\ UNCHANGED frameRequest

\* the request ends
rq_end ==
    /\ rq_pc = "request"
    /\ rq_pc' = "idle"
    /\ nqueries' = 0
    /\ watch' = NoWatch
    /\ UNCHANGED <<id_kind, allowed, nrq>>
    /\ UNCHANGED varsAuthz
    /\ UNCHANGED frameRequest

NextRequest ==
    \/ \E a1 \in AllowCalls, a2 \in AllowCalls : rq_default_call(a1, a2)
    \/ \E key \in OrgRepos, gh \in GhPermissions : rq_github_call(key, gh)
    \/ \E q \in Queries \cup GithubQueries : rq_query(q)
    \/ rq_end

SpecRequest == InitRequest /\ [][NextRequest]_vars

InitTree ==
    /\ StartTree
    /\ StartRequest("default")
    /\ StartAuthn(0)
    /\ StartAuthz(0, 0, 0)
    /\ StartRestrict(NoRestrict)
    /\ StartChain(<< >>, "", NoIdentity)
    /\ StartJwt("None")
    /\ StartBatch
    /\ StartStorage("local")
    /\ StartTransfer
    /\ StartAzure
    /\ StartScopes
    /\ StartPreauth(0)
    /\ StartFlight
    /\ StartApp(0)

\* variant of allow that files the grant under the repo, whatever the oid
DefaultIdentity_allow_drop_oid(a) ==
    /\ nallow < MaxAllows
    /\ nallow' = nallow + 1
    /\ allows' = allows \cup {a}
    /\ last_allow' = a
    /\ allowed' = DefaultIdentity_allow(allowed, [a EXCEPT !.oid = "None"])
    /\ UNCHANGED shown
    /\ UNCHANGED <<id_kind, rq_pc, nrq, nqueries, watch>>
    /\ UNCHANGED frameTree

\* identity.allow(organization, repo, permissions, oid)
tree_allow(a) ==
    /\ nallow < MaxAllows
    /\ nallow' = nallow + 1
    /\ allows' = allows \cup {a}
    /\ last_allow' = a
    /\ allowed' = DefaultIdentity_allow(allowed, a)
    /\ UNCHANGED shown
    /\ UNCHANGED <<id_kind, rq_pc, nrq, nqueries, watch>>
    /\ UNCHANGED frameTree

\* identity.is_authorized(organization, repo, permission, oid)
tree_is_authorized(q) ==
    /\ LET r == DefaultIdentity_is_authorized(allowed, q)
       IN /\ allowed' = r.tree
          /\ shown' = [ans |-> r.ans, asked |-> TRUE]
    /\ UNCHANGED <<allows, last_allow, nallow>>
    /\ UNCHANGED <<id_kind, rq_pc, nrq, nqueries, watch>>
    /\ UNCHANGED frameTree

NextTree ==
    \/ \E a \in AllowCalls : tree_allow(a)
    \/ \E q \in Queries : tree_is_authorized(q)

SpecTree == InitTree /\ [][NextTree]_vars

\* ------------------------------------------------------- SpecTree claims
\* the answer of the identity to query q, as the tree stands
Answer(tree, q) == DefaultIdentity_is_authorized(tree, q).ans

\* the entries a query falls back on, the most specific first: the oid in
\* the repo, the repo, the organization, everything
Levels(q) ==
    <<<<q.org, q.repo, q.oid>>, <<q.org, q.repo, "None">>,
      <<q.org, "None", "None">>, <<"None", "None", "None">>>>

\* the permission is in the most specific entry the tree has for q
MostSpecificGrant(tree, q) ==
    LET present == {i \in 1..4 : Levels(q)[i] \in DOMAIN tree}
    IN /\ present # {}
       /\ LET first == CHOOSE i \in present : \A j \in present : i <= j
          IN q.perm \in tree[Levels(q)[first]]

\* C12: is_authorized answers with the most specific entry of the tree
\* that matches the query: the exact oid in the repo, else the repo-wide
\* entry, else the org-wide entry, else the global entry; a grant at one of
\* these levels authorizes a query that has no more specific entry.
C12_MostSpecificFirst ==
    \A q \in Queries : Answer(allowed, q) = MostSpecificGrant(allowed, q)

\* allow call a is as wide as query q or wider
Covers(a, q) ==
    /\ a.org \in {q.org, "None"}
    /\ a.repo \in {q.repo, "None"}
    /\ a.oid \in {q.oid, "None"}

\* C13: when is_authorized(org, repo, perm, oid) returns true, an allow
\* call was made before with a permission set that includes perm, for the
\* same (org, repo, oid) or a wider one.
C13_GrantedOnlyIfAllowed ==
    /\ \A q \in Queries :
          Answer(allowed, q) =>
             \E a \in allows :
                /\ ~a.permissions.none
                /\ q.perm \in a.permissions.perms
                /\ Covers(a, q)
    /\ (shown.asked /\ shown.ans) =>
          \E a \in allows : ~a.permissions.none

\* is_authorized returned true on the strength of a wider grant only
C13_Witness ==
    /\ shown.asked
    /\ shown.ans
    /\ \A a \in allows : a.oid = "None" /\ a.repo = "None"

TickSeconds == 40
DEFAULT_LIFETIME == 60
DEFAULT_LEEWAY == 10

\* the key the authenticator signs and verifies with, and another one
PrivateKey == "s1"
OtherKey == "s2"

\* A string is modelled as the sequence of the pieces its separator
\* divides it in: a scope string as the sequence of its ':' parts, and each
\* part as the sequence of its '/' (or ',') pieces.
\* The organization comes from the route "<path:organization>/<repo>..."
\* and may contain '/'.
JwtKeyIds == {"None", "k1"}
JwtOrgs == {<<"orgA">>, <<"grp", "sub">>}
JwtRepos == {<<"r1">>}
JwtOids == {"None", "o1"}
JwtActions ==
    {[none |-> TRUE, set |-> {}]} \cup
    {[none |-> FALSE, set |-> as] :
        as \in {{"read"}, {"write"}, {"verify"}, {"read", "write"}}}
JwtLifetimes == {0, 20}       \* 0 stands for lifetime=None

JwtQueries ==
    [org : {"orgA", "grp", "grp/sub"}, repo : {"r1", "sub"},
     perm : Permission, oid : {"None", "o1", "o2", "r1/o1"}]

Now == jwt_ticks * TickSeconds

Range(f) == {f[i] : i \in DOMAIN f}

\* '/'.join(pieces)
RECURSIVE JoinSlash(_)
JoinSlash(pieces) ==
    IF pieces = << >> THEN ""
    ELSE IF Len(pieces) = 1 THEN pieces[1]
    ELSE pieces[1] \o "/" \o JoinSlash(Tail(pieces))

\* sorted(actions), as the pieces of the ','-joined string
SortedActions(as) ==
    SelectSeq(<<"read", "verify", "write">>, LAMBDA a : a \in as)

\* Scope.__str__: the ':' parts of the string
Scope_str(scope) ==
    LET entity_ref ==
            IF scope.entity_ref # <<"*">> THEN scope.entity_ref ELSE << >>
        subscope ==
            IF scope.subscope # <<"*">> THEN scope.subscope ELSE << >>
        actions ==
            IF ~scope.actions.none /\ scope.actions.set # {}
            THEN SortedActions(scope.actions.set) ELSE << >>
    IN  << <<scope.entity_type>> >>
        \o (IF entity_ref # << >> THEN <<entity_ref>>
            ELSE IF subscope # << >> \/ actions # << >>
            THEN << <<"*">> >> ELSE << >>)
        \o (IF subscope # << >>
            THEN <<subscope>>
                 \o (IF actions = << >> THEN << <<"*">> >> ELSE << >>)
            ELSE << >>)
        \o (IF actions # << >> THEN <<actions>> ELSE << >>)

\* Scope.from_string, on the ':' parts of the string
Scope_from_string(parts) ==
    LET n == Len(parts)
        star == <<"*">>
    IN [entity_type |-> parts[1][1],
        entity_ref |->
            IF n > 1 /\ parts[2] # star THEN parts[2] ELSE << >>,
        actions |->
            IF n = 3 /\ parts[3] # star
            THEN [none |-> FALSE, set |-> Range(parts[3])]
            ELSE IF n = 4 /\ parts[4] # star
            THEN [none |-> FALSE, set |-> Range(parts[4])]
            ELSE [none |-> TRUE, set |-> {}],
        subscope |->
            IF n = 4 /\ parts[3] # star THEN parts[3] ELSE << >>]

\* permissions_map of _parse_scope_permissions
PermissionsMap(action) ==
    CASE action = "read" -> {"READ", "READ_META"}
      [] action = "write" -> {"WRITE"}
      [] action = "verify" -> {"READ_META"}
      [] OTHER -> {}

\* JWTAuthenticator._parse_scope_permissions(scope)
_parse_scope_permissions(scope) ==
    LET permissions ==
            IF ~scope.actions.none /\ scope.actions.set # {}
            THEN UNION {PermissionsMap(a) : a \in scope.actions.set}
            ELSE Permission
    IN IF scope.subscope \in {<<"metadata">>, <<"meta">>}
       THEN permissions \cap {"READ_META"}
       ELSE permissions

\* JWTAuthenticator._parse_scope(scope_str): the arguments of allow()
_parse_scope(scope_str) ==
    LET scope == Scope_from_string(scope_str)
        ref == scope.entity_ref
        n == Len(ref)
        \* entity_ref.split('/', maxsplit=2), '*' replaced by None
        id_parts ==
            IF n >= 3
            THEN <<ref[1], ref[2], JoinSlash(SubSeq(ref, 3, n))>>
            ELSE ref
        part(i) == IF id_parts[i] = "*" THEN "None" ELSE id_parts[i]
    IN IF scope.entity_type # "obj"
       THEN [org |-> "None", repo |-> "None", oid |-> "None",
             permissions |-> [none |-> TRUE, perms |-> {}]]
       ELSE [org |-> IF n >= 2 THEN part(1) ELSE "None",
             repo |-> IF n >= 2 THEN part(2) ELSE "None",
             oid |-> IF n >= 3 THEN part(3)
                     ELSE IF n = 1 THEN part(1) ELSE "None",
             permissions |->
                 [none |-> FALSE, perms |-> _parse_scope_permissions(scope)]]

\* JWTAuthenticator._generate_action_scopes(org, repo, actions, oid)
_generate_action_scopes(org, repo, actions, oid) ==
    LET obj_id == org \o repo \o <<IF oid = "None" THEN "*" ELSE oid>>
    IN Scope_str([entity_type |-> "obj", entity_ref |-> obj_id,
                  actions |-> actions, subscope |-> << >>])

\* the tokens a client can present that this authenticator did not mint
ForeignTokens ==
    {NoToken,
     [kind |-> "garbage", kid |-> "None", key |-> "", exp |-> 0,
      scopes |-> << >>]} \cup
    [kind : {"jwt"}, kid : {"None", "k1", "k2"},
     key : {PrivateKey, OtherKey}, exp : {50},
     scopes : {<< << <<"obj">>, <<"orgA", "r1">>, <<"read">> >> >>}]

\* jwt.decode raises: wrong signature, or exp (with leeway) has passed
BadSignature(t) == t.key # PrivateKey
Expired(t, at) == t.exp + DEFAULT_LEEWAY < at
DecodeFails(t, at) == BadSignature(t) \/ Expired(t, at)

\* the token is a JWT whose kid header is not the configured key_id
KidMismatch(t) == key_id # "None" /\ key_id # t.kid

\* variant of _authenticate that rejects a token with another kid
JWTAuthenticator_authenticate_strict(t) ==
    IF t.kind \in {"none", "garbage"} THEN "null"
    ELSE IF KidMismatch(t) \/ DecodeFails(t, Now) THEN "Unauthorized"
    ELSE "payload"

\* JWTAuthenticator._authenticate(request), t the token of the request
JWTAuthenticator_authenticate(t) ==
    IF t.kind = "none" THEN "null"
    ELSE IF t.kind = "garbage" THEN "null"
    ELSE IF KidMismatch(t) THEN "null"
    ELSE IF DecodeFails(t, Now) THEN "Unauthorized"
    ELSE "payload"

RECURSIVE AllowScopes(_, _)
\* for scope in scopes: identity.allow(**self._parse_scope(scope))
AllowScopes(tree, scopes) ==
    IF scopes = << >> THEN tree
    ELSE AllowScopes(DefaultIdentity_allow(tree, _parse_scope(Head(scopes))),
                     Tail(scopes))

\* JWTAuthenticator._get_identity(jwt_payload): the tree of the identity.
\* The 'scopes' of a payload is the list to_iterable makes of it: a single
\* string stands as the list of that one string.
JWTAuthenticator_get_identity(t) == AllowScopes(<< >>, t.scopes)

InitJwt ==
    /\ \E kid \in JwtKeyIds : StartJwt(kid)
    /\ StartTree
    /\ StartRequest("default")
    /\ StartAuthn(0)
    /\ StartAuthz(0, 0, 0)
    /\ StartRestrict(NoRestrict)
    /\ StartChain(<< >>, "", NoIdentity)
    /\ StartBatch
    /\ StartStorage("local")
    /\ StartTransfer
    /\ StartAzure
    /\ StartScopes
    /\ StartPreauth(0)
    /\ StartFlight
    /\ StartApp(0)

\* _generate_token_for_action(identity, org, repo, actions, oid, lifetime)
_generate_token_for_action(org, repo, actions, oid, lifetime) ==
    [kind |-> "jwt", kid |-> key_id, key |-> PrivateKey,
     exp |-> Now + (IF lifetime # 0 THEN lifetime ELSE DEFAULT_LIFETIME),
     scopes |-> <<_generate_action_scopes(org, repo, actions, oid)>>]

\* JWTAuthenticator.get_authz_header(identity, org, repo, actions, oid,
\* lifetime)
get_authz_header(org, repo, actions, oid, lifetime) ==
    /\ minted' = _generate_token_for_action(org, repo, actions, oid, lifetime)
    /\ granted' = [org |-> org, repo |-> repo, oid |-> oid,
                   actions |-> actions]
    /\ UNCHANGED <<key_id, jwt_ticks, jwt_out>>
    /\ UNCHANGED frameJwt

\* JWTAuthenticator.__call__(request), t the token the request carries
JWTAuthenticator_call(t) ==
    /\ t \in ForeignTokens \cup {minted}
    /\ LET token_payload == JWTAuthenticator_authenticate(t)
       IN jwt_out' =
            [out |-> IF token_payload = "payload" THEN "identity"
                     ELSE token_payload,
             token |-> t, at |-> Now,
             allowed |-> IF token_payload = "payload"
                         THEN JWTAuthenticator_get_identity(t)
                         ELSE << >>]
    /\ UNCHANGED <<key_id, jwt_ticks, minted, granted>>
    /\ UNCHANGED frameJwt

\* time passes
jwt_tick ==
    /\ jwt_ticks < MaxTicks
    /\ jwt_ticks' = jwt_ticks + 1
    /\ UNCHANGED <<key_id, minted, granted, jwt_out>>
    /\ UNCHANGED frameJwt

NextJwt ==
    \/ \E org \in JwtOrgs, repo \in JwtRepos, actions \in JwtActions,
          oid \in JwtOids, lifetime \in JwtLifetimes :
          get_authz_header(org, repo, actions, oid, lifetime)
    \/ \E t \in ForeignTokens \cup {minted} : JWTAuthenticator_call(t)
    \/ jwt_tick

SpecJwt == InitJwt /\ [][NextJwt]_vars

\* -------------------------------------------------------- SpecJwt claims
\* the permissions a set of actions stands for (None: all of them)
ActionPermissions(actions) ==
    IF actions.none THEN Permission
    ELSE UNION {PermissionsMap(a) : a \in actions.set}

\* query q is within what the token was minted for
Granted(g, q) ==
    /\ q.org = JoinSlash(g.org)
    /\ q.repo = JoinSlash(g.repo)
    /\ q.perm \in ActionPermissions(g.actions)
    /\ g.oid = "None" \/ q.oid = g.oid

\* the latest __call__ verified the token minted last
MintedVerified ==
    /\ jwt_out.out = "identity"
    /\ minted.kind = "jwt"
    /\ jwt_out.token = minted

\* C15: the identity obtained by verifying a token minted for
\* (org, repo, actions, oid) is authorized for the queries within that
\* grant and for no other query.
C15_MintThenVerify ==
    MintedVerified =>
        \A q \in JwtQueries :
            Answer(jwt_out.allowed, q) <=> Granted(granted, q)

\* C16: when key_id is configured and the kid header of the token is
\* another one, __call__ returns null, whatever the signature and the
\* expiry; otherwise a token with a wrong signature or past its expiry
\* makes it raise Unauthorized.
C16_KidMismatchPasses ==
    (jwt_out.out # "none" /\ jwt_out.token.kind = "jwt") =>
        /\ KidMismatch(jwt_out.token) => jwt_out.out = "null"
        /\ (/\ ~KidMismatch(jwt_out.token)
            /\ DecodeFails(jwt_out.token, jwt_out.at))
              => jwt_out.out = "Unauthorized"

\* a token with another kid and a wrong signature was passed over
C16_Witness ==
    /\ jwt_out.out = "null"
    /\ jwt_out.token.kind = "jwt"
    /\ key_id = "k1"
    /\ jwt_out.token.kid = "k2"
    /\ BadSignature(jwt_out.token)

\* ------------------------------------------------------------- SpecBatch
\* the namespace of the requests, the objects they list
BatchOrg == "orgA"
BatchRepo == "r1"
BatchOids == {"o1", "o2"}
BatchObjects == [oid : BatchOids, size : {1}]
\* payload["objects"]: validate.Length(min=1)
BatchObjectLists ==
    UNION {[1..n -> BatchObjects] : n \in 1..MaxObjects}
Operations == {"upload", "download"}
StoredSizes == {Absent, 1, 2}

\* the allow calls an authenticator makes for the user of a request
BatchAllows ==
    {[org |-> BatchOrg, repo |-> BatchRepo, oid |-> oid,
      permissions |-> [none |-> FALSE, perms |-> Permission]] :
        oid \in {"None"} \cup BatchOids} \cup
    {[org |-> BatchOrg, repo |-> BatchRepo, oid |-> "None",
      permissions |-> [none |-> FALSE, perms |-> {"READ", "READ_META"}]]}

\* authn.get_identity(): None, or an identity with up to two grants
BatchIdentities ==
    {[none |-> TRUE, allowed |-> << >>],
     [none |-> FALSE, allowed |-> << >>]} \cup
    {[none |-> FALSE, allowed |-> DefaultIdentity_allow(<< >>, a)] :
        a \in BatchAllows} \cup
    {[none |-> FALSE,
      allowed |-> DefaultIdentity_allow(DefaultIdentity_allow(<< >>, a), b)] :
        a \in BatchAllows, b \in BatchAllows}

\* variant of _is_authorized that asks for the whole repo, whatever the oid
BaseView_is_authorized_no_oid(id, permission, oid) ==
    IF id.none THEN [ans |-> FALSE, id |-> id]
    ELSE LET r == DefaultIdentity_is_authorized(id.allowed,
                     [org |-> BatchOrg, repo |-> BatchRepo,
                      perm |-> permission, oid |-> "None"])
         IN [ans |-> r.ans, id |-> [id EXCEPT !.allowed = r.tree]]

\* BaseView._is_authorized(organization, repo, permission, oid)
BaseView_is_authorized(id, permission, oid) ==
    IF id.none THEN [ans |-> FALSE, id |-> id]
    ELSE LET r == DefaultIdentity_is_authorized(id.allowed,
                     [org |-> BatchOrg, repo |-> BatchRepo,
                      perm |-> permission, oid |-> oid])
         IN [ans |-> r.ans, id |-> [id EXCEPT !.allowed = r.tree]]

\* all(self._is_authorized(organization, repo, permission, o["oid"])
\*     for o in payload["objects"])
RECURSIVE AllAuthorized(_, _, _)
AllAuthorized(id, permission, objects) ==
    IF objects = << >> THEN [ans |-> TRUE, id |-> id]
    ELSE LET r == BaseView_is_authorized(id, permission, Head(objects).oid)
         IN IF ~r.ans THEN r
            ELSE AllAuthorized(r.id, permission, Tail(objects))

NoError == [set |-> FALSE, code |-> 0]

\* BasicStreamingTransferAdapter.upload(organization, repo, oid, size)
BasicStreaming_upload(o) ==
    [oid |-> o.oid, size |-> o.size, error |-> NoError,
     actions |-> IF blobs[o.oid] = Absent \/ blobs[o.oid] # o.size
                 THEN {"upload", "verify"} ELSE {}]

\* BasicStreamingTransferAdapter.download(organization, repo, oid, size)
BasicStreaming_download(o) ==
    IF blobs[o.oid] = Absent
    THEN [oid |-> o.oid, size |-> o.size,
          error |-> [set |-> TRUE, code |-> 404], actions |-> {}]
    ELSE IF blobs[o.oid] # o.size
    THEN [oid |-> o.oid, size |-> o.size,
          error |-> [set |-> TRUE, code |-> 422], actions |-> {}]
    ELSE [oid |-> o.oid, size |-> o.size, error |-> NoError,
          actions |-> {"download"}]

\* BatchView._is_error(obj, code); code 0 stands for None
BatchView_is_error(obj, code) ==
    IF obj.error.set THEN obj.error.code = code \/ code = 0 ELSE FALSE

\* variant of the status below that looks for any error first
BatchStatus_any_error_first(objects) ==
    IF \A i \in DOMAIN objects : BatchView_is_error(objects[i], 0)
    THEN 422
    ELSE IF \A i \in DOMAIN objects : BatchView_is_error(objects[i], 404)
    THEN 404
    ELSE 200

\* the end of BatchView.post: NotFound, InvalidPayload or the response
BatchStatus(objects) ==
    IF \A i \in DOMAIN objects : BatchView_is_error(objects[i], 404)
    THEN 404
    ELSE IF \A i \in DOMAIN objects : BatchView_is_error(objects[i], 0)
    THEN 422
    ELSE 200

InitBatch ==
    /\ blobs \in [BatchOids -> StoredSizes]
    /\ batch = NoBatch
    /\ StartJwt("None")
    /\ StartTree
    /\ StartRequest("default")
    /\ StartAuthn(0)
    /\ StartAuthz(0, 0, 0)
    /\ StartRestrict(NoRestrict)
    /\ StartChain(<< >>, "", NoIdentity)
    /\ StartStorage("local")
    /\ StartTransfer
    /\ StartAzure
    /\ StartScopes
    /\ StartPreauth(0)
    /\ StartFlight
    /\ StartApp(0)

\* BatchView.post(organization, repo) for the user id and the payload
\* (operation, objects)
BatchView_post(id, operation, objects) ==
    /\ LET permission == IF operation = "upload" THEN "WRITE" ELSE "READ"
           top == BaseView_is_authorized(id, permission, "None")
           forbidden ==
               /\ ~top.ans
               /\ ~AllAuthorized(top.id, permission, objects).ans
           results ==
               IF forbidden THEN << >>
               ELSE [i \in DOMAIN objects |->
                        IF operation = "upload"
                        THEN BasicStreaming_upload(objects[i])
                        ELSE BasicStreaming_download(objects[i])]
           status == IF forbidden THEN 403 ELSE BatchStatus(results)
       IN batch' =
            [identity |-> id, operation |-> operation, objects |-> objects,
             calls |-> Len(results), results |-> results, status |-> status,
             response |-> IF status = 200
                          THEN [transfer |-> "basic", objects |-> results]
                          ELSE NoBatch.response]
    /\ UNCHANGED blobs
    /\ UNCHANGED frameBatch

NextBatch ==
    \E id \in BatchIdentities, operation \in Operations,
       objects \in BatchObjectLists :
        BatchView_post(id, operation, objects)

SpecBatch == InitBatch /\ [][NextBatch]_vars

\* ------------------------------------------------------ SpecBatch claims
\* the user of the latest batch request holds its permission for oid
BatchAuthorized(oid) ==
    /\ ~batch.identity.none
    /\ Answer(batch.identity.allowed,
              [org |-> BatchOrg, repo |-> BatchRepo, oid |-> oid,
               perm |-> IF batch.operation = "upload" THEN "WRITE"
                        ELSE "READ"])

EachAuthorized ==
    \A i \in DOMAIN batch.objects : BatchAuthorized(batch.objects[i].oid)

\* C17: a batch request whose user holds WRITE (upload) or READ
\* (download) on (org, repo) proceeds; when that check fails the request
\* proceeds if and only if every listed object is authorized for its oid;
\* a request answered Forbidden called the adapter for no object.
C17_BatchAuthorization ==
    batch.status # 0 =>
        /\ BatchAuthorized("None") => batch.status # 403
        /\ ~BatchAuthorized("None") =>
              (batch.status # 403 <=> EachAuthorized)
        /\ batch.status = 403 => batch.calls = 0 /\ batch.results = << >>

\* a request without the permission on the repo went through on the
\* strength of the grants for its two objects
C17_Witness ==
    /\ batch.status = 200
    /\ ~BatchAuthorized("None")
    /\ EachAuthorized
    /\ {batch.objects[i].oid : i \in DOMAIN batch.objects} = BatchOids
    /\ batch.calls = 2

HasError(obj) == obj.error.set

\* C18: the status of a batch request that was not refused is 404 when
\* every object result has error code 404, 422 when every object result
\* has an error and not all of them 404, and 200 with {transfer, objects}
\* when at least one object result has no error.
C18_BatchStatus ==
    batch.status \notin {0, 403} =>
        LET rs == batch.results
            all404 == \A i \in DOMAIN rs :
                          HasError(rs[i]) /\ rs[i].error.code = 404
            allErr == \A i \in DOMAIN rs : HasError(rs[i])
        IN /\ all404 => batch.status = 404
           /\ (allErr /\ ~all404) => batch.status = 422
           /\ ~allErr =>
                 /\ batch.status = 200
                 /\ batch.response = [transfer |-> "basic", objects |-> rs]
           /\ batch.status \in {200, 404, 422}

\* one object missing, one of the wrong size: 422
C18_Witness ==
    /\ batch.status = 422
    /\ \E i, j \in DOMAIN batch.results :
          /\ batch.results[i].error.code = 404
          /\ batch.results[j].error.code = 422

\* ----------------------------------------------------------- SpecStorage
\* the storage classes: LocalStorage of transfer/basic_streaming.py,
\* LocalStorage of storage/local_storage.py, AzureBlobsStorage
Backends == {"streaming_local", "local", "azure"}
MultipartBackends == {"local", "azure"}
StorageOids == {"o1", "o2"}
\* what a client sends: size 0 is an empty file
PutData == [size : {0, 1}, content : {"a", "b"}]
\* ObjectSchema.size: validate.Range(min=0)
VerifySizes == {0, 1, 2}

\* storage.exists(prefix, oid)
Storage_exists(oid) == disk[oid] # NoObject

\* storage.get_size(prefix, oid): a size, or ObjectNotFoundError
Storage_get_size(oid) ==
    IF Storage_exists(oid)
    THEN [raised |-> FALSE, value |-> disk[oid].size]
    ELSE IF backend = "streaming_local"
    THEN [raised |-> FALSE, value |-> 0]
    ELSE [raised |-> TRUE, value |-> 0]

\* StreamingStorage.verify_object(prefix, oid, size)
Storage_verify_object(oid, size) ==
    LET r == Storage_get_size(oid)
    IN IF r.raised THEN FALSE ELSE r.value = size

Bool(b) == IF b THEN "true" ELSE "false"

InitStorage ==
    /\ \E b \in Backends : StartStorage(b)
    /\ StartBatch
    /\ StartJwt("None")
    /\ StartTree
    /\ StartRequest("default")
    /\ StartAuthn(0)
    /\ StartAuthz(0, 0, 0)
    /\ StartRestrict(NoRestrict)
    /\ StartChain(<< >>, "", NoIdentity)
    /\ StartTransfer
    /\ StartAzure
    /\ StartScopes
    /\ StartPreauth(0)
    /\ StartFlight
    /\ StartApp(0)

\* ObjectsView.put(organization, repo, oid) for an authorized client:
\* storage.put(prefix, oid, data_stream). LocalStorage opens the path
\* with mode "bw"; upload_blob without overwrite=True refuses an existing
\* blob.
ObjectsView_put(oid, data) ==
    /\ IF backend = "azure" /\ Storage_exists(oid)
       THEN disk' = disk
       ELSE disk' = [disk EXCEPT ![oid] = data]
    /\ last_op' =
          [op |-> "put", oid |-> oid, size |-> data.size, had |-> disk[oid],
           result |-> IF backend = "azure" /\ Storage_exists(oid)
                      THEN "raise" ELSE "ok"]
    /\ UNCHANGED <<backend, offered>>
    /\ UNCHANGED frameStorage

\* VerifyView.verify(organization, repo) with payload (oid, size)
VerifyView_verify(oid, size) ==
    /\ last_op' =
          [op |-> "verify_object", oid |-> oid, size |-> size,
           had |-> disk[oid], result |-> Bool(Storage_verify_object(oid, size))]
    /\ UNCHANGED <<backend, disk, offered>>
    /\ UNCHANGED frameStorage

\* MultipartTransferAdapter.upload(organization, repo, oid, size):
\* nothing to do for an object that verifies; otherwise
\* storage.get_multipart_actions, which in AzureBlobsStorage runs
\* _get_uncommitted_blocks: a blob with committed blocks is deleted
MultipartTransferAdapter_upload(oid, size) ==
    /\ backend \in MultipartBackends
    /\ IF Storage_verify_object(oid, size)
       THEN /\ UNCHANGED <<disk, offered>>
            /\ last_op' = [op |-> "upload", oid |-> oid, size |-> size,
                           had |-> disk[oid], result |-> "none"]
       ELSE IF backend = "azure"
       THEN /\ disk' = [disk EXCEPT ![oid] = NoObject]
            /\ offered' = offered \cup {oid}
            /\ last_op' = [op |-> "upload", oid |-> oid, size |-> size,
                           had |-> disk[oid], result |-> "actions"]
       ELSE /\ UNCHANGED <<disk, offered>>
            /\ last_op' = [op |-> "upload", oid |-> oid, size |-> size,
                           had |-> disk[oid], result |-> "none"]
    /\ UNCHANGED backend
    /\ UNCHANGED frameStorage

\* the client follows the "commit" action of a multipart upload
multipart_commit(oid, data) ==
    /\ oid \in offered
    /\ disk' = [disk EXCEPT ![oid] = data]
    /\ offered' = offered \ {oid}
    /\ last_op' = [op |-> "commit", oid |-> oid, size |-> data.size,
                   had |-> disk[oid], result |-> "ok"]
    /\ UNCHANGED backend
    /\ UNCHANGED frameStorage

NextStorage ==
    \/ \E oid \in StorageOids, data \in PutData : ObjectsView_put(oid, data)
    \/ \E oid \in StorageOids, size \in VerifySizes :
          VerifyView_verify(oid, size)
    \/ \E oid \in StorageOids, size \in VerifySizes :
          MultipartTransferAdapter_upload(oid, size)
    \/ \E oid \in StorageOids, data \in PutData : multipart_commit(oid, data)

SpecStorage == InitStorage /\ [][NextStorage]_vars

\* ---------------------------------------------------- SpecStorage claims
\* C19: an object the storage holds stays as it is: no step replaces its
\* content or its size, and no step removes it.
C19_StoredObjectsStay ==
    [][\A oid \in StorageOids :
          disk[oid] # NoObject => disk'[oid] = disk[oid]]_vars

\* C20: verify_object(prefix, oid, size) returns true or false, and true
\* exactly when the storage holds the object and its size is the given
\* one; in particular false for an object it does not hold, size 0
\* included.
C20_VerifyObject ==
    last_op.op = "verify_object" =>
        /\ last_op.result \in {"true", "false"}
        /\ last_op.result = "true" <=>
              (last_op.had # NoObject /\ last_op.had.size = last_op.size)

\* ---------------------------------------------------------- SpecTransfer
\* the transfer adapters and the storage classes each one can be given:
\* basic_streaming a StreamingStorage, basic_external an ExternalStorage,
\* multipart a MultipartStorage
Adapters == {"basic_streaming", "basic_external", "multipart"}
Fits(adapter) ==
    CASE adapter = "basic_streaming" -> TRUE
      [] adapter = "basic_external" -> backend = "azure"
      [] adapter = "multipart" -> backend \in MultipartBackends

\* the "actions" and "error" of the dict that upload(organization, repo,
\* oid, size) or download(...) of the adapter returns
AdapterReply(adapter, operation, o) ==
    LET none == [actions |-> {}, error |-> NoError]
        err(code) == [actions |-> {}, error |-> [set |-> TRUE, code |-> code]]
        act(as) == [actions |-> as, error |-> NoError]
        size == Storage_get_size(o.oid)
    IN CASE adapter = "basic_streaming" /\ operation = "upload" ->
              IF ~Storage_exists(o.oid) \/ size.value # o.size
              THEN act({"upload", "verify"}) ELSE none
         [] adapter = "basic_streaming" /\ operation = "download" ->
              IF ~Storage_exists(o.oid) THEN err(404)
              ELSE IF size.value # o.size THEN err(422)
              ELSE act({"download"})
         [] adapter = "basic_external" /\ operation = "upload" ->
              IF Storage_verify_object(o.oid, o.size) THEN none
              ELSE act({"upload", "verify"})
         [] adapter = "multipart" /\ operation = "upload" ->
              IF Storage_verify_object(o.oid, o.size) THEN none
              \* LocalStorage.get_multipart_actions returns {}
              ELSE IF backend = "local" THEN none
              ELSE act({"commit", "abort", "verify"})
         [] operation = "download" ->
              \* _check_object, then storage.get_download_action, which
              \* returns {} in LocalStorage
              IF size.raised THEN err(404)
              ELSE IF size.value # o.size THEN err(422)
              ELSE IF backend = "local" THEN none
              ELSE act({"download"})

InitTransfer ==
    /\ \E b \in Backends : StartStorage(b)
    /\ StartTransfer
    /\ StartBatch
    /\ StartJwt("None")
    /\ StartTree
    /\ StartRequest("default")
    /\ StartAuthn(0)
    /\ StartAuthz(0, 0, 0)
    /\ StartRestrict(NoRestrict)
    /\ StartChain(<< >>, "", NoIdentity)
    /\ StartAzure
    /\ StartScopes
    /\ StartPreauth(0)
    /\ StartFlight
    /\ StartApp(0)

\* adapter.upload / adapter.download for one object of a batch request
TransferAdapter_call(adapter, operation, o) ==
    /\ Fits(adapter)
    /\ LET r == AdapterReply(adapter, operation, o)
       IN reply' = [asked |-> TRUE, adapter |-> adapter,
                    operation |-> operation, oid |-> o.oid, size |-> o.size,
                    had |-> disk[o.oid], actions |-> r.actions,
                    error |-> r.error]
    \* AzureBlobsStorage.get_multipart_actions restarts the upload
    /\ IF /\ adapter = "multipart" /\ operation = "upload"
          /\ backend = "azure" /\ ~Storage_verify_object(o.oid, o.size)
       THEN /\ disk' = [disk EXCEPT ![o.oid] = NoObject]
            /\ offered' = offered \cup {o.oid}
       ELSE UNCHANGED <<disk, offered>>
    /\ UNCHANGED <<backend, last_op>>
    /\ UNCHANGED frameTransfer

NextTransfer ==
    \/ \E adapter \in Adapters, operation \in Operations,
          oid \in StorageOids, size \in VerifySizes :
          TransferAdapter_call(adapter, operation, [oid |-> oid, size |-> size])
    \/ \E oid \in StorageOids, data \in PutData : ObjectsView_put(oid, data)
    \/ \E oid \in StorageOids, data \in PutData : multipart_commit(oid, data)

SpecTransfer == InitTransfer /\ [][NextTransfer]_vars

\* --------------------------------------------------- SpecTransfer claims
\* C21: a per-object result has "actions" or "error" but not both; it has
\* neither only when it answers an upload of an object the storage holds
\* with the requested size, and a download result always has one of them.
C21_ActionsOrError ==
    reply.asked =>
        /\ ~(reply.actions # {} /\ reply.error.set)
        /\ (reply.actions = {} /\ ~reply.error.set) =>
              /\ reply.operation = "upload"
              /\ reply.had # NoObject
              /\ reply.had.size = reply.size


\* ------------------------------------------------ SpecAzure
\* Azure multipart uploads: the plan of blocks, the blocks already staged
\* on the server, the parts still asked of the client and the commit body.

MaxSize == 5
PartSizes == {2, 3}
FileSizes == 0..MaxSize
\* sizes a client may have staged a block with
StagedSizes == {1, 2}

\* AzureBlobsStorage._PART_ID_BYTE_SIZE
_PART_ID_BYTE_SIZE == 16

Digits == <<"0", "1", "2", "3", "4", "5", "6", "7", "8", "9">>

\* str(n) for a non-negative integer below 100
Str(n) ==
    IF n < 10 THEN <<Digits[n + 1]>>
    ELSE <<Digits[(n \div 10) + 1], Digits[(n % 10) + 1]>>

\* str.zfill(width)
Zfill(str, width) ==
    IF Len(str) >= width THEN str
    ELSE [k \in 1..width |->
            IF k <= width - Len(str) THEN "0"
            ELSE str[k - (width - Len(str))]]

\* base64.b64encode and its inverse, which the Azure library applies to the
\* ids of a block list
B64encode(str) == [b64 |-> str]
B64decode(enc) == enc.b64

IsDecimal(str) ==
    /\ str # << >>
    /\ \A k \in 1..Len(str) : \E d \in 1..10 : Digits[d] = str[k]

DigitValue(c) == (CHOOSE d \in 1..10 : Digits[d] = c) - 1

RECURSIVE IntOf(_)
\* int(str) for a string of decimal digits
IntOf(str) ==
    IF str = << >> THEN 0
    ELSE 10 * IntOf(SubSeq(str, 1, Len(str) - 1)) + DigitValue(str[Len(str)])

_encode_block_id(b_id) == B64encode(Zfill(Str(b_id), _PART_ID_BYTE_SIZE))

\* variant that appends the last block even when it is empty
_calculate_blocks_always_last(file_size, part_size) ==
    LET full_blocks == file_size \div part_size
        last_block_size == file_size % part_size
    IN  [i \in 1..(full_blocks + 1) |->
            IF i <= full_blocks
            THEN [id |-> i - 1, start |-> (i - 1) * part_size,
                  size |-> part_size]
            ELSE [id |-> full_blocks, start |-> full_blocks * part_size,
                  size |-> last_block_size]]

_calculate_blocks(file_size, part_size) ==
    LET full_blocks == file_size \div part_size
        last_block_size == file_size % part_size
        n == IF last_block_size # 0 THEN full_blocks + 1 ELSE full_blocks
    IN  [i \in 1..n |->
            IF i <= full_blocks
            THEN [id |-> i - 1, start |-> (i - 1) * part_size,
                  size |-> part_size]
            ELSE [id |-> full_blocks, start |-> full_blocks * part_size,
                  size |-> last_block_size]]

\* the raw ids a client may stage a block under: the ids of the first
\* blocks of a plan, and one id that is not a number
BadId == <<"x">>
StagedIds ==
    {Zfill(Str(i), _PART_ID_BYTE_SIZE) : i \in {0, 1, 2}} \cup {BadId}

\* the blob is known to the server
BlobFound(b) == b.committed \/ DOMAIN b.staged # {}

\* { int(b["id"]): b["size"] for b in uncommitted_blocks }
ExistingBlocks(staged) ==
    [n \in {IntOf(id) : id \in DOMAIN staged} |->
        staged[CHOOSE id \in DOMAIN staged : IntOf(id) = n]]

\* variant that never compares the sizes of the staged blocks with the plan
_get_uncommitted_blocks_no_size_check(b, blocks) ==
    IF ~BlobFound(b) THEN [existing |-> << >>, delete |-> FALSE]
    ELSE IF b.committed THEN [existing |-> << >>, delete |-> TRUE]
    ELSE IF \E id \in DOMAIN b.staged : ~IsDecimal(id)
    THEN [existing |-> << >>, delete |-> FALSE]
    ELSE [existing |-> ExistingBlocks(b.staged), delete |-> FALSE]

\* the uncommitted blocks to resume from, and whether the blob is deleted
_get_uncommitted_blocks(b, blocks) ==
    IF ~BlobFound(b) THEN [existing |-> << >>, delete |-> FALSE]
    ELSE IF b.committed THEN [existing |-> << >>, delete |-> TRUE]
    ELSE IF \E id \in DOMAIN b.staged : ~IsDecimal(id)
    THEN [existing |-> << >>, delete |-> FALSE]
    ELSE LET existing_blocks == ExistingBlocks(b.staged)
         IN  IF \E k \in 1..Len(blocks) :
                    /\ blocks[k].id \in DOMAIN existing_blocks
                    /\ existing_blocks[blocks[k].id] # blocks[k].size
             THEN [existing |-> << >>, delete |-> TRUE]
             ELSE [existing |-> existing_blocks, delete |-> FALSE]

_create_part_request(block) ==
    [blockid |-> _encode_block_id(block.id), pos |-> block.start,
     size |-> block.size]

\* the <Uncommitted> entries of the block list, in order
_create_commit_body(blocks) ==
    [k \in 1..Len(blocks) |-> _encode_block_id(blocks[k].id)]

\* variant whose commit body lists only the blocks still to be uploaded
MultipartReply_commit_parts(blocks, uncommitted) ==
    LET todo == SelectSeq(blocks, LAMBDA b : b.id \notin DOMAIN uncommitted)
    IN  [parts |-> [k \in 1..Len(todo) |-> _create_part_request(todo[k])],
         body |-> _create_commit_body(todo)]

\* the parts and the commit body of get_multipart_actions
MultipartReply(blocks, uncommitted) ==
    LET todo == SelectSeq(blocks, LAMBDA b : b.id \notin DOMAIN uncommitted)
    IN  [parts |-> [k \in 1..Len(todo) |-> _create_part_request(todo[k])],
         body |-> _create_commit_body(blocks)]

InitAzure ==
    /\ StartAzure
    /\ StartTransfer
    /\ StartStorage("local")
    /\ StartBatch
    /\ StartJwt("None")
    /\ StartTree
    /\ StartRequest("default")
    /\ StartAuthn(0)
    /\ StartAuthz(0, 0, 0)
    /\ StartRestrict(NoRestrict)
    /\ StartChain(<< >>, "", NoIdentity)
    /\ StartScopes
    /\ StartPreauth(0)
    /\ StartFlight
    /\ StartApp(0)

\* AzureBlobsStorage.get_multipart_actions
get_multipart_actions(size, part_size) ==
    LET blocks == _calculate_blocks(size, part_size)
        found == _get_uncommitted_blocks(azure_blob, blocks)
        r == MultipartReply(blocks, found.existing)
    IN  /\ azure_blob' = IF found.delete THEN NoBlocks ELSE azure_blob
        /\ azure_reply' = [asked |-> TRUE, size |-> size,
                           part_size |-> part_size, blocks |-> blocks,
                           parts |-> r.parts, body |-> r.body,
                           deleted |-> found.delete]
        /\ UNCHANGED frameAzure

\* a client's Put Block: stages a block under a raw id
put_block(id, size) ==
    /\ azure_blob' =
          [azure_blob EXCEPT !.staged =
              [i \in DOMAIN azure_blob.staged \cup {id} |->
                  IF i = id THEN size ELSE azure_blob.staged[i]]]
    /\ UNCHANGED azure_reply
    /\ UNCHANGED frameAzure

\* a client's Put Block List with the body of the commit action: every
\* listed block must be staged; the staged blocks left over are discarded
put_block_list ==
    /\ azure_reply.asked
    /\ azure_reply.body # << >>
    /\ \A k \in 1..Len(azure_reply.body) :
          B64decode(azure_reply.body[k]) \in DOMAIN azure_blob.staged
    /\ azure_blob' = [committed |-> TRUE, staged |-> << >>]
    /\ UNCHANGED azure_reply
    /\ UNCHANGED frameAzure

\* the abort action: Delete Blob
abort_upload ==
    /\ azure_reply.asked
    /\ azure_blob' = NoBlocks
    /\ UNCHANGED azure_reply
    /\ UNCHANGED frameAzure

NextAzure ==
    \/ \E size \in FileSizes, part_size \in PartSizes :
          get_multipart_actions(size, part_size)
    \/ \E id \in StagedIds, size \in StagedSizes : put_block(id, size)
    \/ put_block_list
    \/ abort_upload

SpecAzure == InitAzure /\ [][NextAzure]_vars


\* ------------------------------------------------ SpecAzure: C22, C23, C25
RECURSIVE SumSizes(_)
SumSizes(blocks) ==
    IF blocks = << >> THEN 0
    ELSE blocks[1].size + SumSizes(Tail(blocks))

\* the planned blocks a staged block already covers with the planned size
StagedAsPlanned(b, blocks) ==
    {k \in 1..Len(blocks) :
        \E id \in DOMAIN b.staged :
            /\ IsDecimal(id)
            /\ IntOf(id) = blocks[k].id
            /\ b.staged[id] = blocks[k].size}

\* a staged block has the id of a planned block and another size
SizeDiffers(b, blocks) ==
    \E k \in 1..Len(blocks), id \in DOMAIN b.staged :
        /\ IsDecimal(id)
        /\ IntOf(id) = blocks[k].id
        /\ b.staged[id] # blocks[k].size

AllParts(blocks) == [k \in 1..Len(blocks) |-> _create_part_request(blocks[k])]

PartsLeft(b, blocks) ==
    LET todo == SelectSeq(blocks,
                   LAMBDA x : x.id + 1 \notin StagedAsPlanned(b, blocks))
    IN  [k \in 1..Len(todo) |-> _create_part_request(todo[k])]

\* C22 (as claimed): when committed blocks exist or a staged block's size
\* differs from the plan the blob is deleted and every planned part is
\* returned; otherwise the parts are exactly the planned blocks not already
\* staged with the planned size.
C22_ResumeOrRestart ==
    [][LET size == azure_reply'.size
           part_size == azure_reply'.part_size
       IN (/\ azure_reply'.asked
           /\ get_multipart_actions(size, part_size)) =>
             LET blocks == _calculate_blocks(size, part_size)
             IN  IF azure_blob.committed \/ SizeDiffers(azure_blob, blocks)
                 THEN /\ azure_blob' = NoBlocks
                      /\ azure_reply'.parts = AllParts(blocks)
                 ELSE azure_reply'.parts = PartsLeft(azure_blob, blocks)]_vars

\* C22 (amended): as claimed, except that when no committed block exists and
\* some staged block's id is not a decimal number, nothing is deleted and
\* every planned part is returned.
C22_ResumeRestartOrBadId ==
    [][LET size == azure_reply'.size
           part_size == azure_reply'.part_size
       IN (/\ azure_reply'.asked
           /\ get_multipart_actions(size, part_size)) =>
             LET blocks == _calculate_blocks(size, part_size)
                 bad == \E id \in DOMAIN azure_blob.staged : ~IsDecimal(id)
             IN  IF azure_blob.committed
                 THEN /\ azure_blob' = NoBlocks
                      /\ azure_reply'.parts = AllParts(blocks)
                 ELSE IF bad
                 THEN /\ azure_blob' = azure_blob
                      /\ azure_reply'.parts = AllParts(blocks)
                 ELSE IF SizeDiffers(azure_blob, blocks)
                 THEN /\ azure_blob' = NoBlocks
                      /\ azure_reply'.parts = AllParts(blocks)
                 ELSE /\ azure_blob' = azure_blob
                      /\ azure_reply'.parts = PartsLeft(azure_blob, blocks)]_vars

\* an upload was resumed: some planned parts were left out, others returned
C22_Witness ==
    /\ azure_reply.asked
    /\ ~azure_reply.deleted
    /\ azure_reply.parts # << >>
    /\ Len(azure_reply.parts) < Len(azure_reply.blocks)

\* an upload was restarted: the blob was deleted, every part returned
C22_WitnessRestart ==
    /\ azure_reply.asked
    /\ azure_reply.deleted
    /\ Len(azure_reply.blocks) > 1
    /\ Len(azure_reply.parts) = Len(azure_reply.blocks)

\* C23: the commit body lists exactly the ids of the blocks planned by
\* _calculate_blocks(size, part_size), in order, and the sizes of these
\* blocks sum to size, whatever parts were left out of the reply.
C23_CommitBodyListsPlan ==
    azure_reply.asked =>
        LET blocks == _calculate_blocks(azure_reply.size,
                                        azure_reply.part_size)
        IN  /\ Len(azure_reply.body) = Len(blocks)
            /\ \A k \in 1..Len(blocks) :
                  /\ IsDecimal(B64decode(azure_reply.body[k]))
                  /\ IntOf(B64decode(azure_reply.body[k])) = blocks[k].id
            /\ SumSizes(blocks) = azure_reply.size

\* a reply that left a part out and still lists several blocks to commit
C23_Witness ==
    /\ azure_reply.asked
    /\ Len(azure_reply.parts) < Len(azure_reply.blocks)
    /\ Len(azure_reply.body) > 1

\* C25: _calculate_blocks returns blocks with ids 0..n-1 that are contiguous
\* from offset 0, each of part_size except a possibly smaller, non-empty
\* last block, with sizes that sum to size.
C25_BlocksPartitionFile ==
    azure_reply.asked =>
        LET b == azure_reply.blocks
            n == Len(b)
        IN  /\ \A i \in 1..n :
                  /\ b[i].id = i - 1
                  /\ b[i].start = IF i = 1 THEN 0
                                  ELSE b[i - 1].start + b[i - 1].size
                  /\ i < n => b[i].size = azure_reply.part_size
                  /\ b[i].size > 0
                  /\ b[i].size <= azure_reply.part_size
            /\ SumSizes(b) = azure_reply.size

\* a plan with a smaller last block, and a plan of full blocks only
C25_Witness ==
    /\ azure_reply.asked
    /\ Len(azure_reply.blocks) > 1
    /\ azure_reply.blocks[Len(azure_reply.blocks)].size
          < azure_reply.part_size

C25_WitnessFull ==
    /\ azure_reply.asked
    /\ Len(azure_reply.blocks) > 1
    /\ azure_reply.blocks[Len(azure_reply.blocks)].size
          = azure_reply.part_size


\* ------------------------------------------------ SpecScopes
\* The identity JWTAuthenticator._get_identity builds from a list of scopes.
MaxScopes == 3

\* 'obj', 'obj:orgA/r1:read', 'obj:orgA/r1/o1:write', 'user:u1'
ScopeStrings ==
    {<< <<"obj">> >>,
     << <<"obj">>, <<"orgA", "r1">>, <<"read">> >>,
     << <<"obj">>, <<"orgA", "r1", "o1">>, <<"write">> >>,
     << <<"user">>, <<"u1">> >>}

ScopeLists == UNION {[1..n -> ScopeStrings] : n \in 0..MaxScopes}

ScopeQueries ==
    [org : {"orgA", "orgB"}, repo : {"r1"}, perm : Permission,
     oid : {"None", "o1"}]

InitScopes ==
    /\ StartScopes
    /\ StartAzure
    /\ StartTransfer
    /\ StartStorage("local")
    /\ StartBatch
    /\ StartJwt("None")
    /\ StartTree
    /\ StartRequest("default")
    /\ StartAuthn(0)
    /\ StartAuthz(0, 0, 0)
    /\ StartRestrict(NoRestrict)
    /\ StartChain(<< >>, "", NoIdentity)
    /\ StartPreauth(0)
    /\ StartFlight
    /\ StartApp(0)

\* _get_identity on a decoded payload with the given list of scopes
bearer_get_identity(scopes) ==
    /\ bearer' = [scopes |-> scopes,
                  allowed |-> JWTAuthenticator_get_identity(
                                 [scopes |-> scopes]),
                  fresh |-> TRUE, ans |-> FALSE]
    /\ UNCHANGED frameScopes

\* identity.is_authorized(organization, repo, permission, oid)
bearer_is_authorized(q) ==
    /\ bearer.fresh \/ bearer.allowed # << >>
    /\ LET r == DefaultIdentity_is_authorized(bearer.allowed, q)
       IN bearer' = [bearer EXCEPT !.allowed = r.tree, !.fresh = FALSE,
                                   !.ans = r.ans]
    /\ UNCHANGED frameScopes

NextScopes ==
    \/ \E scopes \in ScopeLists : bearer_get_identity(scopes)
    \/ \E q \in ScopeQueries : bearer_is_authorized(q)

SpecScopes == InitScopes /\ [][NextScopes]_vars

\* the scopes of the list whose entity type is 'obj'
ObjScopes(scopes) ==
    SelectSeq(scopes, LAMBDA s : Scope_from_string(s).entity_type = "obj")

\* C26: a scope whose entity type is not 'obj' yields no grants and leaves
\* the grants of the other scopes unchanged, wherever it stands in the
\* list: the identity answers every query as the identity built from the
\* 'obj' scopes alone.
C26_NonObjScopeIgnored ==
    bearer.fresh =>
        \A q \in ScopeQueries :
            Answer(bearer.allowed, q)
                <=> Answer(AllowScopes(<< >>, ObjScopes(bearer.scopes)), q)


\* ------------------------------------------------ SpecPreauth
\* The pre-authorized actions of the basic streaming adapter: what each
\* action advertises as expires_in, and the token its header carries.

\* PreAuthorizingTransferAdapter.VERIFY_LIFETIME
VERIFY_LIFETIME == 43200

\* action_lifetime of the adapter: shorter than the default lifetime of a
\* token, and the 900 of the default configuration
ActionLifetimes == {40, 900}

InitPreauth ==
    /\ \E lifetime \in ActionLifetimes : StartPreauth(lifetime)
    /\ \E kid \in JwtKeyIds : StartJwt(kid)
    /\ StartScopes
    /\ StartAzure
    /\ StartTransfer
    /\ StartStorage("local")
    /\ StartBatch
    /\ StartTree
    /\ StartRequest("default")
    /\ StartAuthn(0)
    /\ StartAuthz(0, 0, 0)
    /\ StartRestrict(NoRestrict)
    /\ StartChain(<< >>, "", NoIdentity)
    /\ StartFlight
    /\ StartApp(0)

\* BasicStreamingTransferAdapter.upload for an object still to be uploaded
preauth_upload(org, repo, oid) ==
    /\ issued' =
          [at |-> Now,
           actions |->
              [name \in {"upload", "verify"} |->
                  IF name = "upload"
                  THEN [header |-> _generate_token_for_action(
                                      org, repo,
                                      [none |-> FALSE, set |-> {"write"}],
                                      oid, 0),
                        expires_in |-> action_lifetime]
                  ELSE [header |-> _generate_token_for_action(
                                      org, repo,
                                      [none |-> FALSE, set |-> {"verify"}],
                                      oid, VERIFY_LIFETIME),
                        expires_in |-> VERIFY_LIFETIME]]]
    /\ UNCHANGED <<action_lifetime, presented>>
    /\ UNCHANGED varsJwt
    /\ UNCHANGED framePreauth

\* BasicStreamingTransferAdapter.download for an object that is stored
preauth_download(org, repo, oid) ==
    /\ issued' =
          [at |-> Now,
           actions |->
              [name \in {"download"} |->
                  [header |-> _generate_token_for_action(
                                 org, repo,
                                 [none |-> FALSE, set |-> {"read"}], oid, 0),
                   expires_in |-> action_lifetime]]]
    /\ UNCHANGED <<action_lifetime, presented>>
    /\ UNCHANGED varsJwt
    /\ UNCHANGED framePreauth

\* the client follows an action it was given, within the action's
\* expires_in: JWTAuthenticator authenticates the header
preauth_present(name) ==
    /\ name \in DOMAIN issued.actions
    /\ Now <= issued.at + issued.actions[name].expires_in
    /\ presented' =
          [name |-> name, at |-> Now,
           out |-> JWTAuthenticator_authenticate(
                      issued.actions[name].header)]
    /\ UNCHANGED <<action_lifetime, issued>>
    /\ UNCHANGED varsJwt
    /\ UNCHANGED framePreauth

NextPreauth ==
    \/ \E org \in JwtOrgs, repo \in JwtRepos, oid \in {"o1"} :
          \/ preauth_upload(org, repo, oid)
          \/ preauth_download(org, repo, oid)
    \/ \E name \in {"upload", "verify", "download"} : preauth_present(name)
    \/ jwt_tick

SpecPreauth == InitPreauth /\ [][NextPreauth]_vars

\* C30: the credential embedded in a returned action remains valid at least
\* as long as the action's advertised expires_in: presented within that
\* time, the header authenticates.
C30_CredentialOutlivesAction ==
    presented.name # "" => presented.out = "payload"


\* ------------------------------------------------ SpecAuthnFair: C27
\* a step of thread t inside __call__: everything but the arrival of a
\* request
Proceed(t) ==
    \/ cachedmethod_lock_get(t)
    \/ cachedmethod_get(t)
    \/ single_call_lock(t)
    \/ single_call_enter(t)
    \/ single_call_rlock(t)
    \/ single_call_check(t)
    \/ \E ok \in BOOLEAN : authenticate_api(t, ok)
    \/ authenticate_user(t)
    \/ single_call_lock_cleanup(t)
    \/ single_call_cleanup(t)
    \/ single_call_exit(t)
    \/ single_call_else(t)
    \/ cachedmethod_lock_set(t)
    \/ cachedmethod_set(t)
    \/ End(t)

\* the scheduler lets every thread that can take a step take one, and the
\* underlying GitHub call returns
SpecAuthnFair ==
    /\ InitAuthn
    /\ [][NextAuthn]_vars
    /\ \A t \in Threads : WF_vars(Proceed(t))

\* C27: every caller of the decorated method eventually returns or raises:
\* no thread stays for ever inside the wrappers, waiting for the shared
\* cache lock or for the rlock of a call.
C27_CallersReturn ==
    \A t \in Threads : (pc[t] # "idle") ~> (pc[t] = "idle")

\* a thread waits for the rlock of a call that another thread is making
C27_Witness ==
    \E t \in Threads :
        /\ pc[t] = "sc_rlock"
        /\ calls[sctx[t]].owner \notin {0, t}


\* ------------------------------------------------ SpecFlight
\* Concurrent requests of one GitHub identity: identity.authorize(ctx)
\* behind single_call_method, then the view's identity.is_authorized(...).
\* The requests overlap, so the clock stands still.
InitFlight ==
    /\ StartFlight
    /\ \E ms \in 0..MaxAuthCache, wt \in WriteTtls, ot \in OtherTtls :
          StartAuthz(ms, wt, ot)
    /\ StartPreauth(0)
    /\ StartScopes
    /\ StartAzure
    /\ StartTransfer
    /\ StartStorage("local")
    /\ StartBatch
    /\ StartJwt("None")
    /\ StartTree
    /\ StartRequest("default")
    /\ StartAuthn(0)
    /\ StartRestrict(NoRestrict)
    /\ StartChain(<< >>, "", NoIdentity)
    /\ StartApp(0)

\* the request calls identity.authorize(ctx): the single-call wrapper finds
\* the context of a call in flight for (org, repo, identity) and waits for
\* it, or creates the context and makes the call
flight_enter(t, key) ==
    /\ fl_pc[t] = "idle"
    /\ fl_key' = [fl_key EXCEPT ![t] = key]
    /\ IF fl_ctx[key] # 0
       THEN /\ fl_pc' = [fl_pc EXCEPT ![t] = "waiting"]
            /\ fl_shared' = [fl_shared EXCEPT ![t] = TRUE,
                                              ![fl_ctx[key]] = TRUE]
            /\ UNCHANGED fl_ctx
       ELSE /\ fl_pc' = [fl_pc EXCEPT ![t] = "authorize"]
            /\ fl_ctx' = [fl_ctx EXCEPT ![key] = t]
            /\ UNCHANGED fl_shared
    /\ UNCHANGED <<fl_resolved, fl_checked>>
    /\ UNCHANGED varsAuthz
    /\ UNCHANGED frameFlight

\* the call in flight: GithubIdentity.authorize, with GitHub's answer gh
\* when GithubUserIdentity._authorize has to ask; the context is deleted
\* and the waiting requests are served
flight_authorize(t, gh) ==
    /\ fl_pc[t] = "authorize"
    /\ LET key == fl_key[t]
           r == _permissions(auth_cache_read_proxy, auth_cache, key, FALSE,
                             now)
           w == _set_permissions(r.proxy, r.main, key, GhToPermissions(gh),
                                 FALSE, now)
           permissions == IF r.found THEN r.perms ELSE GhToPermissions(gh)
           served == {t} \cup {o \in 1..NThreads :
                                  fl_pc[o] = "waiting" /\ fl_key[o] = key}
       IN /\ auth_cache_read_proxy' = IF r.found THEN r.proxy ELSE w.proxy
          /\ auth_cache' = IF r.found THEN r.main ELSE w.main
          /\ last_auth' =
                IF r.found THEN last_auth
                ELSE [last_auth EXCEPT ![key] =
                        [time |-> now, perms |-> GhToPermissions(gh),
                         read |-> "pending"]]
          /\ fl_resolved' = [o \in 1..NThreads |->
                               IF o \in served THEN permissions
                               ELSE fl_resolved[o]]
          /\ fl_pc' = [o \in 1..NThreads |->
                          IF o = t THEN "check"
                          ELSE IF o \in served THEN "returning"
                          ELSE fl_pc[o]]
          /\ fl_ctx' = [fl_ctx EXCEPT ![key] = 0]
    /\ UNCHANGED <<fl_key, fl_shared, fl_checked>>
    /\ UNCHANGED <<now, auth_max_size, auth_write_ttl, auth_other_ttl,
                   answer>>
    /\ UNCHANGED frameFlight

\* a request that waited passes the context's rlock and returns
flight_return(t) ==
    /\ fl_pc[t] = "returning"
    /\ fl_pc' = [fl_pc EXCEPT ![t] = "check"]
    /\ UNCHANGED <<fl_key, fl_ctx, fl_shared, fl_resolved, fl_checked>>
    /\ UNCHANGED varsAuthz
    /\ UNCHANGED frameFlight

\* the view's check: identity.is_authorized(org, repo, permission)
flight_is_authorized(t, permission) ==
    /\ fl_pc[t] = "check"
    /\ LET r == _permissions(auth_cache_read_proxy, auth_cache, fl_key[t],
                             TRUE, now)
       IN /\ auth_cache_read_proxy' = r.proxy
          /\ auth_cache' = r.main
          /\ answer' = (r.found /\ permission \in r.perms)
          /\ fl_checked' = [fl_checked EXCEPT ![t] =
                               [asked |-> TRUE, perm |-> permission,
                                ans |-> r.found /\ permission \in r.perms]]
    /\ fl_pc' = [fl_pc EXCEPT ![t] = "done"]
    /\ UNCHANGED <<fl_key, fl_ctx, fl_shared, fl_resolved>>
    /\ UNCHANGED <<now, auth_max_size, auth_write_ttl, auth_other_ttl,
                   last_auth>>
    /\ UNCHANGED frameFlight

\* the request ends
flight_end(t) ==
    /\ fl_pc[t] = "done"
    /\ fl_pc' = [fl_pc EXCEPT ![t] = "idle"]
    /\ fl_key' = [fl_key EXCEPT ![t] = << >>]
    /\ fl_shared' = [fl_shared EXCEPT ![t] = FALSE]
    /\ fl_resolved' = [fl_resolved EXCEPT ![t] = {}]
    /\ fl_checked' = [fl_checked EXCEPT ![t] = NoCheck]
    /\ UNCHANGED fl_ctx
    /\ UNCHANGED varsAuthz
    /\ UNCHANGED frameFlight

NextFlight ==
    \/ \E t \in 1..NThreads :
          \/ \E key \in OrgRepos : flight_enter(t, key)
          \/ \E gh \in GhPermissions : flight_authorize(t, gh)
          \/ flight_return(t)
          \/ \E permission \in Permission : flight_is_authorized(t, permission)
          \/ flight_end(t)

SpecFlight == InitFlight /\ [][NextFlight]_vars

\* C29: when several concurrent requests for one (identity, org, repo)
\* share an authorization flight, the own is_authorized check of each of
\* them returns true for every permission of the set the flight resolved.
C29_SharedFlightAuthorizes ==
    \A t \in 1..NThreads :
        (/\ fl_checked[t].asked
         /\ fl_shared[t]
         /\ fl_checked[t].perm \in fl_resolved[t])
        => fl_checked[t].ans


\* ------------------------------------------------ SpecApp
\* Concurrent requests that carry one GitHub App installation token
\* ('ghs_...'): GithubAuthenticator.__call__ with GithubAppIdentity.
AppOrgs == {"orgA", "orgB"}

InitApp ==
    /\ \E tms \in 0..MaxTokenCache : StartApp(tms)
    /\ StartFlight
    /\ StartPreauth(0)
    /\ StartScopes
    /\ StartAzure
    /\ StartTransfer
    /\ StartStorage("local")
    /\ StartBatch
    /\ StartJwt("None")
    /\ StartTree
    /\ StartRequest("default")
    /\ StartAuthn(0)
    /\ StartAuthz(0, 0, 0)
    /\ StartRestrict(NoRestrict)
    /\ StartChain(<< >>, "", NoIdentity)

\* __call__: a request for org arrives
app_call(t, org) ==
    /\ app_pc[t] = "idle"
    /\ app_nreq < MaxReq
    /\ app_nreq' = app_nreq + 1
    /\ app_org' = [app_org EXCEPT ![t] = org]
    /\ app_pc' = [app_pc EXCEPT ![t] = "cm_get"]
    /\ UNCHANGED <<app_own, app_res, app_ident, app_raised, app_ctx,
                   app_cache, app_cache_size, app_ids>>
    /\ UNCHANGED frameApp

\* cachedmethod wrapper: 'with lock(self): return c[k]'
app_cache_get(t) ==
    /\ app_pc[t] = "cm_get"
    /\ IF app_cache # 0
       THEN /\ app_ident' = [app_ident EXCEPT ![t] = app_cache]
            /\ app_pc' = [app_pc EXCEPT ![t] = "authorize"]
       ELSE /\ app_pc' = [app_pc EXCEPT ![t] = "sc_enter"]
            /\ UNCHANGED app_ident
    /\ UNCHANGED <<app_org, app_own, app_res, app_raised, app_ctx,
                   app_cache, app_cache_size, app_ids, app_nreq>>
    /\ UNCHANGED frameApp

\* single_call_method wrapper: wait for the call in flight for the token,
\* or become the caller
app_single_call(t) ==
    /\ app_pc[t] = "sc_enter"
    /\ IF app_ctx # 0
       THEN /\ app_pc' = [app_pc EXCEPT ![t] = "waiting"]
            /\ UNCHANGED app_ctx
       ELSE /\ app_pc' = [app_pc EXCEPT ![t] = "method"]
            /\ app_ctx' = t
    /\ UNCHANGED <<app_org, app_own, app_res, app_ident, app_raised,
                   app_cache, app_cache_size, app_ids, app_nreq>>
    /\ UNCHANGED frameApp

\* GithubAppIdentity.authenticate(ctx): _get_installation for ctx.org
\* succeeds (ok) and an identity is constructed for ctx.org, or it raises
\* Unauthorized; the context is deleted and the waiting requests get the
\* same result
app_authenticate(t, ok) ==
    /\ app_pc[t] = "method"
    /\ LET served == {t} \cup {o \in 1..NThreads : app_pc[o] = "waiting"}
       IN IF ok
          THEN /\ app_ids' = Append(app_ids,
                     [_orig_org |-> app_org[t],
                      _orig_installation_data |-> TRUE, authorized |-> {}])
               /\ app_res' = [o \in 1..NThreads |->
                                 IF o \in served THEN Len(app_ids) + 1
                                 ELSE app_res[o]]
               /\ app_pc' = [o \in 1..NThreads |->
                                IF o \in served THEN "cm_set" ELSE app_pc[o]]
               /\ app_own' = [app_own EXCEPT ![t] = app_org[t]]
               /\ UNCHANGED app_raised
          ELSE /\ app_raised' = [o \in 1..NThreads |->
                                    IF o \in served THEN "Unauthorized"
                                    ELSE app_raised[o]]
               /\ app_pc' = [o \in 1..NThreads |->
                                IF o \in served THEN "done" ELSE app_pc[o]]
               /\ UNCHANGED <<app_ids, app_res, app_own>>
    /\ app_ctx' = 0
    /\ UNCHANGED <<app_org, app_ident, app_cache, app_cache_size, app_nreq>>
    /\ UNCHANGED frameApp

\* cachedmethod wrapper: 'with lock(self): return c.setdefault(k, v)';
\* ValueError (no room in the cache) -> return v
app_cache_set(t) ==
    /\ app_pc[t] = "cm_set"
    /\ IF app_cache # 0
       THEN /\ app_ident' = [app_ident EXCEPT ![t] = app_cache]
            /\ UNCHANGED app_cache
       ELSE /\ app_ident' = [app_ident EXCEPT ![t] = app_res[t]]
            /\ app_cache' = IF app_cache_size < 1 THEN 0 ELSE app_res[t]
    /\ app_pc' = [app_pc EXCEPT ![t] = "authorize"]
    /\ UNCHANGED <<app_org, app_own, app_res, app_raised, app_ctx,
                   app_cache_size, app_ids, app_nreq>>
    /\ UNCHANGED frameApp

\* identity.authorize(ctx): nothing to do when the org's permissions are
\* cached; else GithubAppIdentity._authorize, which uses the installation
\* data of the authentication once, for the org it was made for
app_authorize(t) ==
    /\ app_pc[t] = "authorize"
    /\ LET i == app_ident[t]
           org == app_org[t]
       IN IF org \in app_ids[i].authorized
          THEN UNCHANGED <<app_ids, app_raised>>
          ELSE IF app_ids[i]._orig_installation_data
          THEN IF app_ids[i]._orig_org # org
               THEN /\ app_raised' = [app_raised EXCEPT ![t] = "RuntimeError"]
                    /\ UNCHANGED app_ids
               ELSE /\ app_ids' = [app_ids EXCEPT ![i] =
                          [@ EXCEPT !._orig_installation_data = FALSE,
                                    !.authorized = @ \cup {org}]]
                    /\ UNCHANGED app_raised
          ELSE /\ app_ids' = [app_ids EXCEPT ![i].authorized = @ \cup {org}]
               /\ UNCHANGED app_raised
    /\ app_pc' = [app_pc EXCEPT ![t] = "done"]
    /\ UNCHANGED <<app_org, app_own, app_res, app_ident, app_ctx, app_cache,
                   app_cache_size, app_nreq>>
    /\ UNCHANGED frameApp

\* the request ends
app_end(t) ==
    /\ app_pc[t] = "done"
    /\ app_pc' = [app_pc EXCEPT ![t] = "idle"]
    /\ app_org' = [app_org EXCEPT ![t] = ""]
    /\ app_own' = [app_own EXCEPT ![t] = ""]
    /\ app_res' = [app_res EXCEPT ![t] = 0]
    /\ app_ident' = [app_ident EXCEPT ![t] = 0]
    /\ app_raised' = [app_raised EXCEPT ![t] = ""]
    /\ UNCHANGED <<app_ctx, app_cache, app_cache_size, app_ids, app_nreq>>
    /\ UNCHANGED frameApp

NextApp ==
    \E t \in 1..NThreads :
        \/ \E org \in AppOrgs : app_call(t, org)
        \/ app_cache_get(t)
        \/ app_single_call(t)
        \/ \E ok \in BOOLEAN : app_authenticate(t, ok)
        \/ app_cache_set(t)
        \/ app_authorize(t)
        \/ app_end(t)

SpecApp == InitApp /\ [][NextApp]_vars

\* C28: _authorize never raises the org-mismatch RuntimeError for a request
\* whose org is the one its own authentication was performed for.
C28_NoMismatchForOwnOrg ==
    \A t \in 1..NThreads :
        app_raised[t] = "RuntimeError" => app_own[t] # app_org[t]

\* ------------------------------------------------ SpecAuthn: C24
\* a token cache entry holds the identity the weak map has for user u
TokenCacheRefers(u) ==
    \E j \in 1..Len(token_cache) : token_cache[j].v = cached_users[u]

\* C24 (as claimed): the weak map has an entry for a user only while a
\* token cache entry refers to the identity.
C24_OnlyWhileCached ==
    \A u \in Users : cached_users[u] # 0 => TokenCacheRefers(u)

\* C24 (amended): the weak map has an entry for a user only while a token
\* cache entry or a request in progress refers to the identity; with no
\* request in progress it has the entry exactly while a token cache entry
\* refers to it, so the entry is gone once the last such entry is evicted.
C24_WeakEntryWhileReferenced ==
    /\ \A u \in Users :
          cached_users[u] # 0 =>
             Referenced(cached_users[u], token_cache, result, identity,
                        sctx, calls)
    /\ (\A t \in Threads : pc[t] = "idle") =>
          /\ \A u \in Users : cached_users[u] # 0 <=> TokenCacheRefers(u)
          /\ \A j \in 1..Len(token_cache) :
                cached_users[idcore[token_cache[j].v]] = token_cache[j].v

\* the identity of a user was cached and then evicted by another user's
\* token: no request in progress, and the weak map has lost the entry
C24_Witness ==
    /\ \A t \in Threads : pc[t] = "idle"
    /\ token_cache # << >>
    /\ \E i \in 1..Len(idcore) :
          /\ cached_users[idcore[i]] = 0
          /\ \E c \in 1..Len(calls) : calls[c].result = i

====
